---- MODULE Spec2Model ----
(***************************************************************************)
(* x402-engine: payment enforcement pipeline of the gateway.               *)
(*                                                                         *)
(* Strings that the code inspects character by character (prices, token    *)
(* amounts) are sequences of one-character strings.  A bigint is the       *)
(* canonical decimal digit sequence of its value (no leading zero, zero is *)
(* <<"0">>), so that 18-decimal amounts keep their exact value.            *)
(* An address or a tx hash is a record [id, cs]: id names the 20/32 bytes, *)
(* cs the letter case in which its hex digits are written.                 *)
(***************************************************************************)
EXTENDS Integers, Sequences, FiniteSets, TLC

VARIABLES config, routes, chain, usedTx, req, vtl, pf, lg, tmr, up, pin, px, kp, ttl,
          hd, pair, ft, mem

vars == <<config, routes, chain, usedTx, req, vtl, pf, lg, tmr, up, pin, px, kp, ttl,
          hd, pair, ft, mem>>

\* ------------------------------------------------------------------------
\* Bounds of the model
\* ------------------------------------------------------------------------
MaxReq == 1
MaxInv == 2
MaxLogs == 2
\* calls of logRequest in one run of the process
MaxEntries == 4
\* LOG_BATCH_SIZE is 50 in db/ledger; the model fills a batch with fewer
LOG_BATCH_SIZE == 2
\* pin requests in one run of the process
MaxUploads == 6
\* characters of a price string
MaxLen == 4
\* secrets passed to one registration, and acquire calls in one run
MaxKeys == 3
MaxAcquires == 5
\* readings of the clock in one run, and time-to-live values, in clock ticks
MaxTime == 3
MaxTtl == 2
\* requests that reach one handler in one run
MaxHandled == 2

\* ------------------------------------------------------------------------
\* Character strings and bigint arithmetic
\* ------------------------------------------------------------------------
Digits == {"0", "1", "2", "3", "4", "5", "6", "7", "8", "9"}

DigitVal == [c \in Digits |->
    CASE c = "0" -> 0 [] c = "1" -> 1 [] c = "2" -> 2 [] c = "3" -> 3
      [] c = "4" -> 4 [] c = "5" -> 5 [] c = "6" -> 6 [] c = "7" -> 7
      [] c = "8" -> 8 [] c = "9" -> 9]

DigitChar == [n \in 0..9 |-> CHOOSE c \in Digits : DigitVal[c] = n]

Zeros(n) == [i \in 1..n |-> "0"]

\* String.prototype.slice(0, n)
SliceTo(s, n) == SubSeq(s, 1, IF Len(s) < n THEN Len(s) ELSE n)

\* a fraction left as short as it was written
PadEndNothing(s, n) == s

\* String.prototype.padEnd(n, "0")
PadEndZero(s, n) == IF Len(s) >= n THEN s ELSE s \o Zeros(n - Len(s))

\* s.replace(/^0+/, "")
RECURSIVE StripLeadingZeros(_)
StripLeadingZeros(s) ==
    IF s # <<>> /\ Head(s) = "0" THEN StripLeadingZeros(Tail(s)) ELSE s

\* index of the first "." in s at or after position i, 0 when there is none
RECURSIVE DotFrom(_, _)
DotFrom(s, i) ==
    IF i > Len(s) THEN 0 ELSE IF s[i] = "." THEN i ELSE DotFrom(s, i + 1)

\* the first two elements of s.split("."): [0] always exists, [1] is
\* undefined (has = FALSE) when s has no "."
SplitDot(s) ==
    LET d1 == DotFrom(s, 1) IN
    IF d1 = 0 THEN [int |-> s, has |-> FALSE, dec |-> <<>>]
    ELSE LET rest == SubSeq(s, d1 + 1, Len(s))
             d2 == DotFrom(rest, 1) IN
         [int |-> SubSeq(s, 1, d1 - 1), has |-> TRUE,
          dec |-> IF d2 = 0 THEN rest ELSE SubSeq(rest, 1, d2 - 1)]

IsDigits(s) == \A i \in 1..Len(s) : s[i] \in Digits

SyntaxError == <<"SyntaxError">>

\* BigInt(str) for a string of decimal digits, with a "-" in front for a
\* negative value; any other text is a SyntaxError
BigInt(s) ==
    IF s # <<>> /\ IsDigits(s)
    THEN (IF StripLeadingZeros(s) = <<>> THEN <<"0">> ELSE StripLeadingZeros(s))
    ELSE IF Len(s) >= 2 /\ Head(s) = "-" /\ IsDigits(Tail(s))
    THEN (IF StripLeadingZeros(Tail(s)) = <<>> THEN <<"0">>
          ELSE <<"-">> \o StripLeadingZeros(Tail(s)))
    ELSE SyntaxError

BigZero == <<"0">>

\* a < b on bigints
RECURSIVE LexLess(_, _)
LexLess(a, b) ==
    IF a = <<>> THEN FALSE
    ELSE IF DigitVal[Head(a)] # DigitVal[Head(b)]
         THEN DigitVal[Head(a)] < DigitVal[Head(b)]
         ELSE LexLess(Tail(a), Tail(b))

BigLess(a, b) ==
    \/ Len(a) < Len(b)
    \/ Len(a) = Len(b) /\ LexLess(a, b)

\* a + b on bigints: digit-wise from the right with a carry
RECURSIVE AddRev(_, _, _)
AddRev(a, b, carry) ==
    IF a = <<>> /\ b = <<>>
    THEN (IF carry = 0 THEN <<>> ELSE <<DigitChar[carry]>>)
    ELSE LET da == IF a = <<>> THEN 0 ELSE DigitVal[a[Len(a)]]
             db == IF b = <<>> THEN 0 ELSE DigitVal[b[Len(b)]]
             s  == da + db + carry
             ra == IF a = <<>> THEN a ELSE SubSeq(a, 1, Len(a) - 1)
             rb == IF b = <<>> THEN b ELSE SubSeq(b, 1, Len(b) - 1)
         IN  Append(AddRev(ra, rb, s \div 10), DigitChar[s % 10])

BigAdd(a, b) == AddRev(a, b, 0)

\* ------------------------------------------------------------------------
\* lib/validation: price conversion
\* ------------------------------------------------------------------------
priceStringToTokenAmount(price, decimals) ==
    LET stripped == IF price # <<>> /\ Head(price) = "$" THEN Tail(price) ELSE price
        parts    == SplitDot(stripped)
        intPart  == parts.int
        decPart  == IF parts.has THEN parts.dec ELSE <<>>
        padded   == SliceTo(PadEndZero(decPart, decimals), decimals)
        stripd0  == StripLeadingZeros(intPart \o padded)
        tokenStr == IF stripd0 = <<>> THEN <<"0">> ELSE stripd0
    IN  BigInt(tokenStr)

\* ------------------------------------------------------------------------
\* config/chains and services/registry: networks
\* ------------------------------------------------------------------------
Cases == {"lower", "upper", "mixed"}

Addr(id, cs) == [id |-> id, cs |-> cs]

NoAddr == Addr("undefined", "lower")

\* a comparison that keeps the letter case
KeepCase(a) == a

\* String.prototype.toLowerCase() on a hex address or hash
toLowerCase(a) == [a EXCEPT !.cs = "lower"]

\* viem getAddress(): the checksummed (mixed case) form of a decoded address
getAddress(a) == [a EXCEPT !.cs = "mixed"]

MEGAETH_CONFIG ==
    [caip2 |-> "eip155:4326",
     stablecoin |-> [symbol |-> "USDm", address |-> Addr("usdm", "mixed"), decimals |-> 18]]

BASE_CONFIG ==
    [caip2 |-> "eip155:8453",
     stablecoin |-> [symbol |-> "USDC", address |-> Addr("usdcBase", "mixed"), decimals |-> 6]]

BASE_SEPOLIA_CONFIG ==
    [caip2 |-> "eip155:84532",
     stablecoin |-> [symbol |-> "USDC", address |-> Addr("usdcSepolia", "mixed"), decimals |-> 6]]

NETWORKS ==
    [base |-> "eip155:8453", baseSepolia |-> "eip155:84532",
     solana |-> "solana:5eykt4UsFv8P8NJdTREpY1vzqKqZKvdp",
     solanaDevnet |-> "solana:EtWTRABZaYq6iMfeYKouRu166VU2xqa1",
     megaeth |-> "eip155:4326"]

\* ------------------------------------------------------------------------
\* verification/megaeth: receipt checks
\* ------------------------------------------------------------------------
Result(valid, error, payer) == [valid |-> valid, error |-> error, payer |-> payer]

ErrNoUsdm        == "No USDm transfer found in transaction"
ErrNoTransfer    == "No Transfer events from USDm contract"
ErrNoRecipient   == "No USDm transfer to expected recipient"
ErrInsufficient  == "Insufficient payment amount"
ErrReverted      == "Transaction reverted"
ErrBadReceipt    == "Invalid transaction receipt"
ErrNotFound      == "Transaction not found on MegaETH"
ErrBadRecipient  == "Invalid recipient address format"
ErrUsed          == "Transaction already used for payment"
ErrUsedRace      == "Transaction already used for payment (race)"

\* viem parseEventLogs with the ERC-20 Transfer ABI (strict): a log whose
\* topic0 is not the Transfer selector is dropped, the others are decoded
\* and their address arguments come back checksummed
parseEventLogs(logs) ==
    LET xfer == SelectSeq(logs, LAMBDA l : l.topic0 = "Transfer") IN
    [i \in 1..Len(xfer) |->
        [args |-> [from |-> getAddress(xfer[i].from),
                   to |-> getAddress(xfer[i].to),
                   value |-> xfer[i].value]]]

\* a loop that keeps the last matching transfer instead of adding it
RECURSIVE LastTransfer(_, _, _, _)
LastTransfer(transfers, recipientLower, total, payer) ==
    IF transfers = <<>> THEN [total |-> total, payer |-> payer]
    ELSE LET transfer == Head(transfers)
             to == toLowerCase(transfer.args.to)
         IN  IF to = recipientLower
             THEN LastTransfer(Tail(transfers), recipientLower,
                               transfer.args.value, transfer.args.from)
             ELSE LastTransfer(Tail(transfers), recipientLower, total, payer)

\* the loop over the decoded transfers: running total and last payer
RECURSIVE SumTransfers(_, _, _, _)
SumTransfers(transfers, recipientLower, total, payer) ==
    IF transfers = <<>> THEN [total |-> total, payer |-> payer]
    ELSE LET transfer == Head(transfers)
             to == toLowerCase(transfer.args.to)
         IN  IF to = recipientLower
             THEN SumTransfers(Tail(transfers), recipientLower,
                               BigAdd(total, transfer.args.value), transfer.args.from)
             ELSE SumTransfers(Tail(transfers), recipientLower, total, payer)

verifyTransferLogs(logs, expectedAmount, expectedRecipient) ==
    LET usdmAddress == toLowerCase(MEGAETH_CONFIG.stablecoin.address)
        usdmLogs    == SelectSeq(logs, LAMBDA log : toLowerCase(log.address) = usdmAddress)
        transfers   == parseEventLogs(usdmLogs)
        acc         == SumTransfers(transfers, toLowerCase(expectedRecipient), BigZero, NoAddr)
    IN  IF Len(usdmLogs) = 0 THEN Result(FALSE, ErrNoUsdm, NoAddr)
        ELSE IF Len(transfers) = 0 THEN Result(FALSE, ErrNoTransfer, NoAddr)
        ELSE IF acc.total = BigZero THEN Result(FALSE, ErrNoRecipient, NoAddr)
        ELSE IF BigLess(acc.total, expectedAmount) THEN Result(FALSE, ErrInsufficient, NoAddr)
        ELSE Result(TRUE, "", acc.payer)

\* the Transfer logs checked before the receipt's status
LogsBeforeStatus(receipt, expectedAmount, expectedRecipient) ==
    LET r == verifyTransferLogs(receipt.logs, expectedAmount, expectedRecipient) IN
    IF ~receipt.present THEN Result(FALSE, ErrBadReceipt, NoAddr)
    ELSE IF ~r.valid THEN r
    ELSE IF receipt.status # "success" THEN Result(FALSE, ErrReverted, NoAddr)
    ELSE r

\* verifyMegaETHPayment between the receipt fetch and the ledger insert:
\* receipt structure, status, then the Transfer logs
CheckReceipt(receipt, expectedAmount, expectedRecipient) ==
    IF ~receipt.present THEN Result(FALSE, ErrBadReceipt, NoAddr)
    ELSE IF receipt.status # "success" THEN Result(FALSE, ErrReverted, NoAddr)
    ELSE verifyTransferLogs(receipt.logs, expectedAmount, expectedRecipient)

\* ------------------------------------------------------------------------
\* services/registry: catalogue and route table
\* ------------------------------------------------------------------------
\* config/services.json: two of the catalogued services
services ==
    << [id |-> "weather", price |-> <<"$", "0", ".", "0", "0", "1">>,
        method |-> "GET", path |-> "/api/weather/current",
        description |-> "Current weather", mimeType |-> "application/json"],
       [id |-> "image-fast", price |-> <<"$", "0", ".", "0", "1", "5">>,
        method |-> "POST", path |-> "/api/image/fast",
        description |-> "Fast image generation", mimeType |-> "application/json"] >>

\* `${method} ${path}`
RouteKey(method, path) == <<method, path>>

RouteKeys == {RouteKey(services[i].method, services[i].path) : i \in 1..Len(services)}

ServiceOf(key) ==
    services[CHOOSE i \in 1..Len(services) :
                 RouteKey(services[i].method, services[i].path) = key]

AcceptsFor(svc, cfg) ==
    LET isDev      == cfg.isDev
        evmNetwork == IF isDev THEN NETWORKS.baseSepolia ELSE NETWORKS.base
        baseChain  == IF isDev THEN BASE_SEPOLIA_CONFIG ELSE BASE_CONFIG
        baseAmount == priceStringToTokenAmount(svc.price, baseChain.stablecoin.decimals)
        megaAmount == priceStringToTokenAmount(svc.price, MEGAETH_CONFIG.stablecoin.decimals)
        solNetwork == IF isDev THEN NETWORKS.solanaDevnet ELSE NETWORKS.solana
        solAmount  == priceStringToTokenAmount(svc.price, 6)
        evm == IF cfg.payToEvm = NoAddr THEN <<>> ELSE
               << [scheme |-> "exact", price |-> svc.price, network |-> evmNetwork,
                   asset |-> baseChain.stablecoin.address, amount |-> baseAmount,
                   payTo |-> cfg.payToEvm, maxTimeoutSeconds |-> 300,
                   extra |-> [name |-> "USD Coin", version |-> "2"]],
                  [scheme |-> "exact", price |-> svc.price, network |-> NETWORKS.megaeth,
                   asset |-> MEGAETH_CONFIG.stablecoin.address, amount |-> megaAmount,
                   payTo |-> cfg.payToEvm, maxTimeoutSeconds |-> 300,
                   extra |-> [name |-> "USDm", version |-> "2"]] >>
        sol == IF cfg.payToSolana = NoAddr THEN <<>> ELSE
               << [scheme |-> "exact", price |-> svc.price, network |-> solNetwork,
                   asset |-> Addr("usdcSolana", "mixed"), amount |-> solAmount,
                   payTo |-> cfg.payToSolana, maxTimeoutSeconds |-> 300,
                   extra |-> [feePayer |-> IF isDev THEN "BENrLoUbndxoNMUS5JXApGMtNykLjFXXixMtpDwDR9SP"
                                                   ELSE "GVJJ7rdGiXr5xaYbRwRbjfaJL7fmwRygFi1H6aGqDveb"]] >>
    IN  evm \o sol

buildRoutesConfig(cfg) ==
    [key \in RouteKeys |->
        [accepts |-> AcceptsFor(ServiceOf(key), cfg),
         description |-> ServiceOf(key).description,
         mimeType |-> ServiceOf(key).mimeType]]

\* the route table handed to the SDK's paymentMiddleware(routes, server)
SdkRoutes == {}

\* ------------------------------------------------------------------------
\* Requests
\* ------------------------------------------------------------------------
NoHash == Addr("undefined", "lower")

\* payload.txHash of a payment payload: absent, a string that does not
\* start with "0x", or a 0x-prefixed hash
NoTx == [kind |-> "none", h |-> NoHash]

TxOf(h) == [kind |-> "hash", h |-> h]

\* the payment-signature / x-payment header: absent, text that does not
\* decode to JSON, or a decoded payload with accepted.network and payload.txHash
\* accepted.amount, accepted.payTo and accepted.asset as the client wrote them
NoAccepted == [amount |-> <<>>, payTo |-> NoAddr, asset |-> NoAddr]

NoHdr == [kind |-> "none", network |-> "", tx |-> NoTx, from |-> NoAddr,
          accepted |-> NoAccepted]

NoX402 == [set |-> FALSE, payer |-> NoAddr, network |-> "", amount |-> BigZero,
           txHash |-> NoHash, method |-> ""]

NoResult == Result(FALSE, "pending", NoAddr)

\* the row a handler hands to logRequest
NoLogRow == [written |-> FALSE, payer |-> NoAddr, network |-> ""]

NoRes == [sent |-> FALSE, status |-> 0, paymentRequired |-> FALSE, x402Version |-> 0,
          accepts |-> <<>>, error |-> "", reason |-> ""]

IdleReq ==
    [st |-> "idle", origin |-> "none", method |-> "", path |-> "",
     bypassHdr |-> "", hdr |-> NoHdr, devBypassed |-> FALSE, x402 |-> NoX402,
     txHash |-> NoHash, expectedAmount |-> BigZero, expectedRecipient |-> NoAddr,
     result |-> NoResult, passed |-> FALSE, insFault |-> FALSE,
     startedUsed |-> FALSE, threw |-> FALSE, sdkEntered |-> FALSE,
     sdkVerified |-> FALSE, res |-> NoRes,
     handlerRan |-> FALSE, logged |-> NoLogRow]

Json(status, error, reason) ==
    [sent |-> TRUE, status |-> status, paymentRequired |-> FALSE, x402Version |-> 0,
     accepts |-> <<>>, error |-> error, reason |-> reason]

\* length of a header value or secret
StrLen(v) == CASE v = "" -> 0 [] v = "s3" -> 2 [] OTHER -> 6

\* /^0x[a-fA-F0-9]{40}$/
IsAddressFormat(a) == a.id # "malformed"

\* ------------------------------------------------------------------------
\* middleware/x402: dev bypass
\* ------------------------------------------------------------------------
\* a bypass check that forgets the environment flag
devBypassAnyEnv(q, cfg) ==
    IF /\ cfg.devBypassSecret # ""
       /\ q.bypassHdr # ""
       /\ StrLen(q.bypassHdr) = StrLen(cfg.devBypassSecret)
       /\ q.bypassHdr = cfg.devBypassSecret
    THEN [q EXCEPT !.devBypassed = TRUE]
    ELSE q

devBypassMiddleware(q, cfg) ==
    IF /\ cfg.isDev
       /\ cfg.devBypassSecret # ""
       /\ q.bypassHdr # ""
       /\ StrLen(q.bypassHdr) = StrLen(cfg.devBypassSecret)
       /\ q.bypassHdr = cfg.devBypassSecret
    THEN [q EXCEPT !.devBypassed = TRUE]
    ELSE q

\* ------------------------------------------------------------------------
\* index.ts: the chain after the fast-rail middleware called next()
\* ------------------------------------------------------------------------
\* payer metadata taken from the payment header
ExtractPayerMetadata(q) ==
    IF q.devBypassed \/ q.x402.set THEN q
    ELSE IF q.hdr.kind = "none" THEN q
    ELSE IF q.hdr.kind = "garbage" THEN q
    ELSE IF q.hdr.network # ""
         THEN [q EXCEPT !.x402 = [set |-> TRUE, payer |-> q.hdr.from,
                                  network |-> q.hdr.network, amount |-> BigZero,
                                  txHash |-> NoHash, method |-> "sdk"]]
         ELSE q

\* an entry passed on with its price
KeepPrice(a) == a

\* const { price, ...rest } = a
StripPrice(a) ==
    [scheme |-> a.scheme, network |-> a.network, asset |-> a.asset, amount |-> a.amount,
     payTo |-> a.payTo, maxTimeoutSeconds |-> a.maxTimeoutSeconds, extra |-> a.extra]

\* a router that matches method and path exactly
RouterMatchesExactly(key, method, path) == key = RouteKey(method, path)

\* the spellings of a catalogued path that the request inputs use: the path
\* itself, in another letter case, and with a trailing slash
PathSpellings ==
    {[raw |-> "/api/weather/current",  lower |-> "/api/weather/current",  slash |-> FALSE],
     [raw |-> "/API/Weather/Current",  lower |-> "/api/weather/current",  slash |-> FALSE],
     [raw |-> "/api/weather/current/", lower |-> "/api/weather/current",  slash |-> TRUE],
     [raw |-> "/api/image/fast",       lower |-> "/api/image/fast",       slash |-> FALSE],
     [raw |-> "/api/image/fast/",      lower |-> "/api/image/fast",       slash |-> TRUE],
     [raw |-> "/api/none",             lower |-> "/api/none",             slash |-> FALSE]}

Spelling(path) == CHOOSE p \in PathSpellings : p.raw = path

\* router.get(path, handler) of a Router() made with default options: the
\* path is matched without regard to letter case and with an optional
\* trailing slash, and a GET route also answers HEAD
RouterMatches(key, method, path) ==
    /\ key[1] = method \/ (key[1] = "GET" /\ method = "HEAD")
    /\ Spelling(path).lower = Spelling(key[2]).lower

\* the paid routers: a request that matches the route of a catalogued
\* service is dispatched to its handler, any other gets 404
PaidRouters(q) ==
    IF \E key \in RouteKeys : RouterMatches(key, q.method, q.path)
    THEN [q EXCEPT !.st = "done", !.handlerRan = TRUE, !.res = Json(200, "", ""),
                   !.logged = [written |-> TRUE, payer |-> q.x402.payer,
                               network |-> q.x402.network]]
    ELSE [q EXCEPT !.st = "done", !.res = Json(404, "Not found", "")]

\* @x402/express paymentMiddleware(SdkRoutes, server): a request whose route
\* is not in the table it was given does not require payment
paymentMw(q, verified) ==
    IF RouteKey(q.method, q.path) \notin SdkRoutes
    THEN PaidRouters([q EXCEPT !.sdkEntered = TRUE])
    ELSE IF q.hdr.kind = "json" /\ verified
    THEN PaidRouters([q EXCEPT !.sdkEntered = TRUE, !.sdkVerified = TRUE])
    ELSE [q EXCEPT !.st = "done", !.sdkEntered = TRUE,
                   !.res = [Json(402, "Payment required", "") EXCEPT
                               !.paymentRequired = TRUE, !.x402Version = 2]]

\* a wrapper that hands every request to the SDK middleware
SdkGateAlways(q, verified) == paymentMw(q, verified)

\* the wrapper around the SDK middleware
SdkGate(q, verified) ==
    IF q.devBypassed \/ (q.x402.set /\ q.x402.method = "direct")
    THEN PaidRouters(q)
    ELSE paymentMw(q, verified)

enriched402Middleware(q, rt, verified) ==
    LET hasPayment == q.hdr.kind # "none"
        routeKey   == RouteKey(q.method, q.path)
    IN  IF hasPayment THEN SdkGate(q, verified)
        ELSE IF routeKey \notin DOMAIN rt THEN SdkGate(q, verified)
        ELSE [q EXCEPT !.st = "done",
                       !.res = [sent |-> TRUE, status |-> 402, paymentRequired |-> TRUE,
                                x402Version |-> 2,
                                accepts |-> [i \in 1..Len(rt[routeKey].accepts) |->
                                                StripPrice(rt[routeKey].accepts[i])],
                                error |-> "Payment required", reason |-> ""]]

Downstream(q, rt, verified) == enriched402Middleware(ExtractPayerMetadata(q), rt, verified)

\* ------------------------------------------------------------------------
\* middleware/payment: fast-rail middleware
\* ------------------------------------------------------------------------
\* a detection that takes every EVM network for the fast rail
detectNetworkAnyEvm(hdr) ==
    IF hdr.network = "" THEN "unknown"
    ELSE IF hdr.network \in {NETWORKS.megaeth, NETWORKS.base, NETWORKS.baseSepolia, "eip155:1"}
         THEN "megaeth"
    ELSE IF hdr.network \in {NETWORKS.solana, NETWORKS.solanaDevnet} THEN "solana"
    ELSE "unknown"

detectNetwork(hdr) ==
    IF hdr.network = "" THEN "unknown"
    ELSE IF hdr.network = NETWORKS.megaeth THEN "megaeth"
    ELSE IF hdr.network \in {NETWORKS.base, NETWORKS.baseSepolia} THEN "base"
    ELSE IF hdr.network \in {NETWORKS.solana, NETWORKS.solanaDevnet} THEN "solana"
    ELSE "unknown"

\* the route's requirements read from the accept's amount field
getRouteRequirementsAmount(method, path, rt) ==
    LET routeKey == RouteKey(method, path)
        mega == IF routeKey \in DOMAIN rt
                THEN SelectSeq(rt[routeKey].accepts, LAMBDA a : a.network = NETWORKS.megaeth)
                ELSE <<>>
    IN  IF mega = <<>> THEN [found |-> FALSE, amount |-> <<>>, payTo |-> NoAddr]
        ELSE [found |-> TRUE, amount |-> mega[1].amount, payTo |-> mega[1].payTo]

getRouteRequirements(method, path, rt) ==
    LET routeKey == RouteKey(method, path)
        mega == IF routeKey \in DOMAIN rt
                THEN SelectSeq(rt[routeKey].accepts, LAMBDA a : a.network = NETWORKS.megaeth)
                ELSE <<>>
    IN  IF mega = <<>> THEN [found |-> FALSE, amount |-> <<>>, payTo |-> NoAddr]
        ELSE [found |-> TRUE, amount |-> mega[1].price, payTo |-> mega[1].payTo]

\* verifyMegaETHPayment up to its first await: lower-case the hash, check the
\* recipient format, then probe the ledger.  startedUsed remembers whether
\* the hash, in whatever letter case, had been accepted before this call.
StartVerify(q, tx, expectedAmount, expectedRecipient, used) ==
    LET txHash == toLowerCase(tx) IN
    [q EXCEPT !.txHash = txHash,
              !.expectedAmount = expectedAmount,
              !.expectedRecipient = expectedRecipient,
              !.startedUsed = \E row \in used : row.tx_hash.id = tx.id,
              !.st = IF IsAddressFormat(expectedRecipient) THEN "probe" ELSE "verified",
              !.result = IF IsAddressFormat(expectedRecipient) THEN NoResult
                         ELSE Result(FALSE, ErrBadRecipient, NoAddr)]

\* a middleware that answers 402 and goes on to the next middleware anyway
AfterVerifyNoReturn(q, rt, verified) ==
    IF ~q.result.valid
    THEN Downstream([q EXCEPT !.res = Json(402, "Payment verification failed",
                                           q.result.error)], rt, verified)
    ELSE Downstream([q EXCEPT !.x402 = [set |-> TRUE, payer |-> q.result.payer,
                                        network |-> NETWORKS.megaeth,
                                        amount |-> q.expectedAmount,
                                        txHash |-> q.txHash, method |-> "direct"]],
                    rt, verified)

\* the middleware after verifyMegaETHPayment returned
AfterVerify(q, rt, verified) ==
    IF ~q.result.valid
    THEN [q EXCEPT !.st = "done",
                   !.res = Json(402, "Payment verification failed", q.result.error)]
    ELSE Downstream([q EXCEPT !.x402 = [set |-> TRUE, payer |-> q.result.payer,
                                        network |-> NETWORKS.megaeth,
                                        amount |-> q.expectedAmount,
                                        txHash |-> q.txHash, method |-> "direct"]],
                    rt, verified)

\* a middleware that demands what the client's header names
megaethPaymentMiddlewareTrusting(q, rt, used, verified) ==
    LET routeReq == getRouteRequirements(q.method, q.path, rt)
    IN  IF q.hdr.kind = "none" THEN Downstream(q, rt, verified)
        ELSE IF q.hdr.kind = "garbage" THEN Downstream(q, rt, verified)
        ELSE IF detectNetwork(q.hdr) # "megaeth" THEN Downstream(q, rt, verified)
        ELSE IF ~routeReq.found THEN Downstream(q, rt, verified)
        ELSE IF q.hdr.tx.kind # "hash"
             THEN [q EXCEPT !.st = "done",
                            !.res = Json(402, "MegaETH payments require a txHash in the payload", "")]
        ELSE LET v == StartVerify(q, q.hdr.tx.h, q.hdr.accepted.amount,
                                  q.hdr.accepted.payTo, used)
             IN  IF v.st = "verified" THEN AfterVerify(v, rt, verified) ELSE v

megaethPaymentMiddleware(q, rt, used, verified) ==
    LET routeReq == getRouteRequirements(q.method, q.path, rt)
        expectedAmount == priceStringToTokenAmount(routeReq.amount,
                                                   MEGAETH_CONFIG.stablecoin.decimals)
    IN  IF q.hdr.kind = "none" THEN Downstream(q, rt, verified)
        ELSE IF q.hdr.kind = "garbage" THEN Downstream(q, rt, verified)
        ELSE IF detectNetwork(q.hdr) # "megaeth" THEN Downstream(q, rt, verified)
        ELSE IF ~routeReq.found THEN Downstream(q, rt, verified)
        ELSE IF expectedAmount = SyntaxError THEN [q EXCEPT !.st = "hung", !.threw = TRUE]
        ELSE IF q.hdr.tx.kind # "hash"
             THEN [q EXCEPT !.st = "done",
                            !.res = Json(402, "MegaETH payments require a txHash in the payload", "")]
        ELSE LET v == StartVerify(q, q.hdr.tx.h, expectedAmount, routeReq.payTo, used)
             IN  IF v.st = "verified" THEN AfterVerify(v, rt, verified) ELSE v

\* ------------------------------------------------------------------------
\* facilitator: POST /facilitator/megaeth/verify
\* ------------------------------------------------------------------------
\* the route handler after client.verify() returned or threw
AfterFacilitatorVerify(q) ==
    IF q.threw THEN [q EXCEPT !.st = "done", !.res = Json(500, "Verification failed", "")]
    ELSE IF q.result.valid THEN [q EXCEPT !.st = "done", !.res = Json(200, "", "")]
    ELSE [q EXCEPT !.st = "done", !.res = Json(402, "verification_failed", q.result.error)]

FacilitatorVerifyRoute(q, tx, amount, payTo, used) ==
    IF tx.kind # "hash"
    THEN [q EXCEPT !.st = "done", !.res = Json(402, "missing_tx_hash", "")]
    ELSE IF BigInt(amount) = SyntaxError
    THEN AfterFacilitatorVerify([q EXCEPT !.threw = TRUE])
    ELSE LET v == StartVerify(q, tx.h, BigInt(amount), payTo, used)
         IN  IF v.st = "verified" THEN AfterFacilitatorVerify(v) ELSE v

\* the caller of verifyMegaETHPayment resumes
Resume(q, rt, verified) ==
    IF q.origin = "facilitator" THEN AfterFacilitatorVerify(q)
    ELSE IF q.threw THEN [q EXCEPT !.st = "hung"]
    ELSE AfterVerify(q, rt, verified)

\* ------------------------------------------------------------------------
\* db/ledger: used_tx_hashes
\* ------------------------------------------------------------------------
\* a lookup by the checksummed spelling of the hash
isTxHashUsedChecksummed(used, txHash) == \E row \in used : row.tx_hash = getAddress(txHash)

isTxHashUsed(used, txHash) == \E row \in used : row.tx_hash = toLowerCase(txHash)

\* INSERT ... ON CONFLICT (tx_hash) DO NOTHING: the table after the statement
InsertTxHash(used, txHash, payer, amount, network) ==
    IF \E row \in used : row.tx_hash = toLowerCase(txHash) THEN used
    ELSE used \cup {[tx_hash |-> toLowerCase(txHash), payer |-> payer,
                     amount |-> amount, network |-> network]}

\* a plain insert that reports success without looking at the conflict
recordTxHashNoConflict(used, txHash, payer, amount, network, queryFails) ==
    [inserted |-> ~queryFails,
     used |-> IF queryFails THEN used ELSE InsertTxHash(used, txHash, payer, amount, network)]

\* recordTxHash: the insert's outcome and the table after it; a failed query
\* is caught and reported as "not inserted"
recordTxHash(used, txHash, payer, amount, network, queryFails) ==
    IF queryFails THEN [inserted |-> FALSE, used |-> used]
    ELSE [inserted |-> ~isTxHashUsed(used, txHash),
          used |-> InsertTxHash(used, txHash, payer, amount, network)]

\* ------------------------------------------------------------------------
\* The chain behind the fast-rail RPC
\* ------------------------------------------------------------------------
HashIds == {"h1", "h2"}

PayTo == Addr("payTo", "mixed")

Payer1 == Addr("payer1", "lower")

Payer2 == Addr("payer2", "lower")

TransferLog(emitter, from, to, value) ==
    [address |-> emitter, topic0 |-> "Transfer", from |-> from, to |-> to, value |-> value]

Receipt(status, logs) == [found |-> TRUE, present |-> TRUE, status |-> status, logs |-> logs]

Usdm == Addr("usdm", "lower")

\* 10^15 base units: $0.001 at 18 decimals
Amt1e15 == <<"1">> \o Zeros(15)

\* 14 * 10^15
Amt14e15 == <<"1", "4">> \o Zeros(15)

\* one transfer of exactly $0.001 to the recipient
RcptExact == Receipt("success", <<TransferLog(Usdm, Payer1, Addr("payTo", "lower"), Amt1e15)>>)

\* a split payment of $0.015 in all, next to a transfer to somebody else
RcptSplit ==
    Receipt("success", <<TransferLog(Usdm, Payer1, Addr("payTo", "lower"), Amt1e15),
                         TransferLog(Usdm, Payer1, Addr("other", "lower"), Amt14e15),
                         TransferLog(Usdm, Payer2, Addr("payTo", "upper"), Amt14e15)>>)

RcptReverted == Receipt("reverted", RcptSplit.logs)

RcptWrongTo == Receipt("success", <<TransferLog(Usdm, Payer1, Addr("other", "lower"), Amt14e15)>>)

RcptWrongToken ==
    Receipt("success", <<TransferLog(Addr("otherToken", "lower"), Payer1,
                                     Addr("payTo", "lower"), Amt14e15)>>)

\* no receipt for the hash: the RPC client throws
RcptMissing == [found |-> FALSE, present |-> FALSE, status |-> "", logs |-> <<>>]

\* ------------------------------------------------------------------------
\* Actions
\* ------------------------------------------------------------------------
\* a request to a paid path enters the chain: dev bypass, then the fast-rail
\* middleware, which either finishes the request or awaits the ledger probe
Request(r, method, path, bypassHdr, hdr, verified) ==
    /\ req[r].st = "idle"
    /\ LET q == [IdleReq EXCEPT !.origin = "route", !.method = method, !.path = path,
                                !.bypassHdr = bypassHdr, !.hdr = hdr]
       IN  req' = [req EXCEPT ![r] =
                      megaethPaymentMiddleware(devBypassMiddleware(q, config),
                                               routes, usedTx, verified)]
    /\ UNCHANGED <<config, routes, chain, usedTx, vtl, pf, lg, tmr, up, pin, px, kp, ttl, hd, pair, ft, mem>>

\* POST /facilitator/megaeth/verify with a client-made body
FacilitatorVerify(r, tx, amount, payTo) ==
    /\ req[r].st = "idle"
    /\ req' = [req EXCEPT ![r] =
                  FacilitatorVerifyRoute([IdleReq EXCEPT !.origin = "facilitator"],
                                         tx, amount, payTo, usedTx)]
    /\ UNCHANGED <<config, routes, chain, usedTx, vtl, pf, lg, tmr, up, pin, px, kp, ttl, hd, pair, ft, mem>>

\* await isTxHashUsed(txHash): the query fails, or answers
Probe(r, queryFails, verified) ==
    /\ req[r].st = "probe"
    /\ LET q == req[r] IN
       req' = [req EXCEPT ![r] =
                 IF queryFails THEN Resume([q EXCEPT !.threw = TRUE], routes, verified)
                 ELSE IF isTxHashUsed(usedTx, q.txHash)
                 THEN Resume([q EXCEPT !.result = Result(FALSE, ErrUsed, NoAddr)],
                             routes, verified)
                 ELSE [q EXCEPT !.st = "fetch"]]
    /\ UNCHANGED <<config, routes, chain, usedTx, vtl, pf, lg, tmr, up, pin, px, kp, ttl, hd, pair, ft, mem>>

\* client.getTransactionReceipt({hash}): the chain's receipt for the hash; for
\* a string that is not the hash of a transaction there is none
getTransactionReceipt(ch, txHash) ==
    IF txHash.id \in DOMAIN ch THEN ch[txHash.id] ELSE RcptMissing

\* a verifier that marks the hash as used as soon as it has fetched the receipt
FetchAndMark(r, rpcFails, verified) ==
    /\ req[r].st = "fetch"
    /\ LET q == req[r]
           receipt == getTransactionReceipt(chain, q.txHash)
           result == CheckReceipt(receipt, q.expectedAmount, q.expectedRecipient)
       IN  /\ usedTx' = InsertTxHash(usedTx, q.txHash, NoAddr, q.expectedAmount,
                                     MEGAETH_CONFIG.caip2)
           /\ req' = [req EXCEPT ![r] =
                        IF rpcFails \/ ~receipt.found
                        THEN Resume([q EXCEPT !.result = Result(FALSE, ErrNotFound, NoAddr)],
                                    routes, verified)
                        ELSE IF ~result.valid
                        THEN Resume([q EXCEPT !.result = result], routes, verified)
                        ELSE Resume([q EXCEPT !.result = result, !.passed = TRUE],
                                    routes, verified)]
    /\ UNCHANGED <<config, routes, chain, vtl, pf, lg, tmr, up, pin, px, kp, ttl, hd, pair, ft, mem>>

\* await client.getTransactionReceipt({hash}): the call throws (RPC error,
\* timeout, no such receipt), or returns the receipt, which is then checked
Fetch(r, rpcFails, verified) ==
    /\ req[r].st = "fetch"
    /\ LET q == req[r]
           receipt == getTransactionReceipt(chain, q.txHash)
           result == CheckReceipt(receipt, q.expectedAmount, q.expectedRecipient)
       IN  req' = [req EXCEPT ![r] =
                     IF rpcFails \/ ~receipt.found
                     THEN Resume([q EXCEPT !.result = Result(FALSE, ErrNotFound, NoAddr)],
                                 routes, verified)
                     ELSE IF ~result.valid
                     THEN Resume([q EXCEPT !.result = result], routes, verified)
                     ELSE [q EXCEPT !.st = "record", !.result = result, !.passed = TRUE]]
    /\ UNCHANGED <<config, routes, chain, usedTx, vtl, pf, lg, tmr, up, pin, px, kp, ttl, hd, pair, ft, mem>>

\* await recordTxHash(...): the atomic insert decides who is accepted
Record(r, queryFails, verified) ==
    /\ req[r].st = "record"
    /\ LET q == req[r]
           ins == recordTxHash(usedTx, q.txHash, q.result.payer, q.expectedAmount,
                               MEGAETH_CONFIG.caip2, queryFails)
       IN  /\ usedTx' = ins.used
           /\ req' = [req EXCEPT ![r] =
                        Resume([q EXCEPT !.insFault = queryFails,
                                         !.result = IF ins.inserted THEN q.result
                                                    ELSE Result(FALSE, ErrUsedRace, NoAddr)],
                               routes, verified)]
    /\ UNCHANGED <<config, routes, chain, vtl, pf, lg, tmr, up, pin, px, kp, ttl, hd, pair, ft, mem>>

\* ------------------------------------------------------------------------
\* Inputs
\* ------------------------------------------------------------------------
H1Lower == Addr("h1", "lower")

H1Upper == Addr("h1", "upper")

H2Lower == Addr("h2", "lower")

\* "0x1234": 0x-prefixed, but not 64 hex characters
ShortHash == Addr("short", "lower")

Garbage == [kind |-> "garbage", network |-> "", tx |-> NoTx, from |-> NoAddr,
            accepted |-> NoAccepted]

JsonHdr(network, tx) ==
    [kind |-> "json", network |-> network, tx |-> tx, from |-> NoAddr,
     accepted |-> NoAccepted]

\* a header of the facilitator rails: payload.authorization.from names the payer
SdkHdr(network, from) ==
    [kind |-> "json", network |-> network, tx |-> NoTx, from |-> from,
     accepted |-> NoAccepted]

\* payload.txHash that does not start with "0x"
No0xTx == [kind |-> "no0x", h |-> NoHash]

Headers ==
    {NoHdr, Garbage, JsonHdr(NETWORKS.base, NoTx), JsonHdr("eip155:1", NoTx),
     SdkHdr(NETWORKS.base, Payer1)}
      \cup {JsonHdr(NETWORKS.megaeth, tx) :
               tx \in {NoTx, No0xTx, TxOf(H1Lower), TxOf(H1Upper), TxOf(ShortHash)}}

BypassValues == {"", "s3", "s3cret", "s3creT"}

Configs ==
    [isDev : BOOLEAN, devBypassSecret : {"", "s3cret"},
     payToEvm : {PayTo}, payToSolana : {Addr("solPayTo", "mixed")}]

NoVtl == [status |-> "", logs |-> <<>>, expected |-> BigZero, recipient |-> NoAddr,
          out |-> NoResult]

\* no verifier call, no log subsystem and no deadline under study
NoPf == [variant |-> "none"]

NoLg == [phase |-> "none"]

NoTmr == <<>>

\* no upstream call, no upload and no price conversion under study
NoUp == [phase |-> "none"]

NoPin == [activeUploads |-> 0]

NoPx == <<>>

\* no key pool, no cache, no handler and no pair of calls under study
NoKp == <<>>

NoTtl == <<>>

NoHd == <<>>

NoPair == <<>>

\* no retry loop under study
NoFt == <<>>

\* no in-memory verifier under study
NoMem == <<>>

\* ------------------------------------------------------------------------
\* Specification of the request pipeline
\* ------------------------------------------------------------------------
Init ==
    /\ config \in Configs
    /\ routes = buildRoutesConfig(config)
    /\ chain \in {c \in [HashIds -> {RcptExact, RcptSplit, RcptReverted}] : c["h2"] = RcptSplit}
    /\ usedTx = {}
    /\ req = [r \in 1..MaxReq |-> IdleReq]
    /\ vtl = NoVtl
    /\ pf = NoPf
    /\ lg = NoLg
    /\ tmr = NoTmr
    /\ up = NoUp
    /\ pin = NoPin
    /\ px = NoPx
    /\ kp = NoKp
    /\ ttl = NoTtl
    /\ hd = NoHd
    /\ pair = NoPair
    /\ ft = NoFt
    /\ mem = NoMem

AnyRequest(r) ==
    \E key \in RouteKeys, b \in BypassValues, hdr \in Headers, verified \in BOOLEAN :
        Request(r, key[1], key[2], b, hdr, verified)

ProbeStep(r) == \E f \in BOOLEAN, verified \in BOOLEAN : Probe(r, f, verified)

FetchStep(r) == \E f \in BOOLEAN, verified \in BOOLEAN : Fetch(r, f, verified)

RecordStep(r) == \E f \in BOOLEAN, verified \in BOOLEAN : Record(r, f, verified)

Next ==
    \E r \in DOMAIN req :
        \/ AnyRequest(r)
        \/ ProbeStep(r)
        \/ FetchStep(r)
        \/ RecordStep(r)

Spec == Init /\ [][Next]_vars

\* ------------------------------------------------------------------------
\* Specification of concurrent verifications of the same proof
\* ------------------------------------------------------------------------
InitVerify ==
    /\ config \in {c \in Configs : ~c.isDev /\ c.devBypassSecret # ""}
    /\ routes = buildRoutesConfig(config)
    /\ chain \in {c \in [HashIds -> {RcptExact, RcptSplit, RcptWrongTo, RcptMissing}] :
                      c["h2"] = RcptSplit}
    /\ usedTx = {}
    /\ req = [r \in 1..MaxInv |-> IdleReq]
    /\ vtl = NoVtl
    /\ pf = NoPf
    /\ lg = NoLg
    /\ tmr = NoTmr
    /\ up = NoUp
    /\ pin = NoPin
    /\ px = NoPx
    /\ kp = NoKp
    /\ ttl = NoTtl
    /\ hd = NoHd
    /\ pair = NoPair
    /\ ft = NoFt
    /\ mem = NoMem

\* a fast-rail payment header with a well-formed tx hash on a paid route
FastRequest(r) ==
    \E key \in RouteKeys, h \in {H1Lower, H1Upper}, verified \in BOOLEAN :
        Request(r, key[1], key[2], "", JsonHdr(NETWORKS.megaeth, TxOf(h)), verified)

FacilitatorCall(r) ==
    \E tx \in {NoTx, TxOf(H1Upper), TxOf(H2Lower)},
       payTo \in {Addr("payTo", "lower"), Addr("malformed", "lower")} :
        FacilitatorVerify(r, tx, Amt1e15, payTo)

\* a cleanup that empties the ledger's tables
cleanupEverything(used, rq, old) ==
    [used |-> {},
     req |-> [r \in DOMAIN rq |-> IF r \in old THEN [rq[r] EXCEPT !.logged = NoLogRow]
                                  ELSE rq[r]]]

\* cleanupOldRequests: DELETE FROM requests WHERE created_at < NOW() - 90
\* days; old are the requests whose log row is that old
cleanupOldRequests(used, rq, old) ==
    [used |-> used,
     req |-> [r \in DOMAIN rq |-> IF r \in old THEN [rq[r] EXCEPT !.logged = NoLogRow]
                                  ELSE rq[r]]]

\* the daily cleanup timer fires
Cleanup(old) ==
    /\ old # {}
    /\ \A r \in old : req[r].st = "done" /\ req[r].logged.written
    /\ LET c == cleanupOldRequests(usedTx, req, old)
       IN  usedTx' = c.used /\ req' = c.req
    /\ UNCHANGED <<config, routes, chain, vtl, pf, lg, tmr, up, pin, px, kp, ttl, hd, pair, ft, mem>>

CleanupStep == \E old \in SUBSET DOMAIN req : Cleanup(old)

NextVerify ==
    \/ \E r \in DOMAIN req :
           \/ FastRequest(r)
           \/ FacilitatorCall(r)
           \/ ProbeStep(r)
           \/ FetchStep(r)
           \/ RecordStep(r)
    \/ CleanupStep

SpecVerify == InitVerify /\ [][NextVerify]_vars

\* ------------------------------------------------------------------------
\* Specification of the receipt checks as a function of the receipt
\* ------------------------------------------------------------------------
BoundedSeq(S, n) == UNION {[1..k -> S] : k \in 0..n}

\* values of the Transfer logs and expected amounts, in base units
SmallAmounts == {<<"0">>, <<"1">>, <<"2">>, <<"3">>}

Emitters == {Addr("usdm", "lower"), Addr("usdm", "mixed"), Addr("otherToken", "lower")}

Recipients == {Addr("payTo", "lower"), Addr("payTo", "mixed")}

LogSet ==
    {[address |-> e, topic0 |-> "Approval", from |-> Payer1, to |-> Addr("payTo", "lower"),
      value |-> <<"2">>] : e \in Emitters}
      \cup {TransferLog(e, Payer1, to, v) :
              e \in Emitters,
              to \in {Addr("payTo", "lower"), Addr("payTo", "upper"), Addr("other", "lower")},
              v \in {<<"0">>, <<"1">>, <<"2">>}}

InitLogs ==
    /\ config \in {c \in Configs : ~c.isDev /\ c.devBypassSecret # ""}
    /\ routes = buildRoutesConfig(config)
    /\ chain = [h \in HashIds |-> RcptMissing]
    /\ usedTx = {}
    /\ req = <<>>
    /\ vtl \in [status : {"success", "reverted"}, logs : BoundedSeq(LogSet, MaxLogs),
                expected : SmallAmounts, recipient : Recipients, out : {NoResult}]
    /\ pf = NoPf
    /\ lg = NoLg
    /\ tmr = NoTmr
    /\ up = NoUp
    /\ pin = NoPin
    /\ px = NoPx
    /\ kp = NoKp
    /\ ttl = NoTtl
    /\ hd = NoHd
    /\ pair = NoPair
    /\ ft = NoFt
    /\ mem = NoMem

\* the checks of verifyMegaETHPayment on a fetched receipt
ApplyCheckReceipt ==
    /\ vtl.out = NoResult
    /\ vtl' = [vtl EXCEPT !.out = CheckReceipt(Receipt(vtl.status, vtl.logs),
                                               vtl.expected, vtl.recipient)]
    /\ UNCHANGED <<config, routes, chain, usedTx, req, pf, lg, tmr, up, pin, px, kp, ttl, hd, pair, ft, mem>>

NextLogs == ApplyCheckReceipt

SpecLogs == InitLogs /\ [][NextLogs]_vars

\* ------------------------------------------------------------------------
\* verification/megaeth: one call of the verifier, run to its end
\* ------------------------------------------------------------------------
\* proof.receipt: a receipt the client put into the proof, or none
NoClientReceipt == [given |-> FALSE, transactionHash |-> NoHash, receipt |-> RcptMissing]

ClientReceipt(h, receipt) == [given |-> TRUE, transactionHash |-> h, receipt |-> receipt]

PaymentProof(txHash, receipt) == [txHash |-> txHash, receipt |-> receipt]

ErrMismatch == "Receipt txHash mismatch"

\* a verifier that checks the receipt found in the proof when there is one
verifyMegaETHPaymentTrusting(proof, expectedAmount, expectedRecipient, used, ch, rpcFails) ==
    LET txHash  == toLowerCase(proof.txHash)
        receipt == IF proof.receipt.given THEN proof.receipt.receipt
                   ELSE getTransactionReceipt(ch, txHash)
        result  == CheckReceipt(receipt, expectedAmount, expectedRecipient)
    IN  IF ~IsAddressFormat(expectedRecipient) THEN Result(FALSE, ErrBadRecipient, NoAddr)
        ELSE IF isTxHashUsed(used, txHash) THEN Result(FALSE, ErrUsed, NoAddr)
        ELSE IF ~proof.receipt.given /\ (rpcFails \/ ~receipt.found)
             THEN Result(FALSE, ErrNotFound, NoAddr)
        ELSE result

\* the ledger-backed verifier: the verdict of one call that runs alone
verifyMegaETHPayment(proof, expectedAmount, expectedRecipient, used, ch, rpcFails) ==
    LET txHash  == toLowerCase(proof.txHash)
        receipt == getTransactionReceipt(ch, txHash)
        result  == CheckReceipt(receipt, expectedAmount, expectedRecipient)
        ins     == recordTxHash(used, txHash, result.payer, expectedAmount,
                                MEGAETH_CONFIG.caip2, FALSE)
    IN  IF ~IsAddressFormat(expectedRecipient) THEN Result(FALSE, ErrBadRecipient, NoAddr)
        ELSE IF isTxHashUsed(used, txHash) THEN Result(FALSE, ErrUsed, NoAddr)
        ELSE IF rpcFails \/ ~receipt.found THEN Result(FALSE, ErrNotFound, NoAddr)
        ELSE IF result.valid /\ ~ins.inserted THEN Result(FALSE, ErrUsedRace, NoAddr)
        ELSE result

\* verifyTransferLogs of the in-memory verifier: the same checks, with the
\* recipient and the amounts written into two of its messages
verifyTransferLogsInMemory(logs, expectedAmount, expectedRecipient) ==
    LET r == verifyTransferLogs(logs, expectedAmount, expectedRecipient) IN
    IF r.error = ErrNoRecipient
    THEN [r EXCEPT !.error = "No USDm transfer to expected recipient ${expectedRecipient}"]
    ELSE IF r.error = ErrInsufficient
    THEN [r EXCEPT !.error =
             "Insufficient amount: got ${totalToRecipient}, expected ${expectedAmount}"]
    ELSE r

\* the verifier with the in-memory set of used hashes: a receipt in the proof
\* must name the proof's hash, and the receipt is then fetched all the same
verifyMegaETHPaymentInMemory(proof, expectedAmount, expectedRecipient, used, ch, rpcFails) ==
    LET txHash  == toLowerCase(proof.txHash)
        receipt == getTransactionReceipt(ch, txHash)
    IN  IF \E row \in used : row.tx_hash = txHash THEN Result(FALSE, ErrUsed, NoAddr)
        ELSE IF proof.receipt.given /\ toLowerCase(proof.receipt.transactionHash) # txHash
             THEN Result(FALSE, ErrMismatch, NoAddr)
        ELSE IF rpcFails \/ ~receipt.found THEN Result(FALSE, ErrNotFound, NoAddr)
        ELSE IF receipt.status # "success" THEN Result(FALSE, ErrReverted, NoAddr)
        ELSE verifyTransferLogsInMemory(receipt.logs, expectedAmount, expectedRecipient)

Verdict(p) ==
    IF p.variant = "ledger"
    THEN verifyMegaETHPayment(p.proof, p.expectedAmount, p.expectedRecipient,
                              usedTx, chain, p.rpcFails)
    ELSE verifyMegaETHPaymentInMemory(p.proof, p.expectedAmount, p.expectedRecipient,
                                      usedTx, chain, p.rpcFails)

\* a receipt forged by the client: a sufficient payment to the recipient
ForgedReceipt ==
    Receipt("success", <<TransferLog(Usdm, Payer2, Addr("payTo", "lower"),
                                     <<"1", "5">> \o Zeros(15))>>)

ClientReceipts ==
    {NoClientReceipt, ClientReceipt(H1Upper, ForgedReceipt), ClientReceipt(H2Lower, ForgedReceipt),
     ClientReceipt(H1Lower, RcptReverted)}

InitProof ==
    /\ config \in {c \in Configs : ~c.isDev /\ c.devBypassSecret # ""}
    /\ routes = buildRoutesConfig(config)
    /\ chain \in [HashIds -> {RcptExact, RcptSplit, RcptReverted, RcptMissing}]
    /\ usedTx \in {{}, {[tx_hash |-> H2Lower, payer |-> Payer1, amount |-> Amt1e15,
                        network |-> MEGAETH_CONFIG.caip2]}}
    /\ req = <<>>
    /\ vtl = NoVtl
    /\ pf \in [variant : {"ledger", "memory"},
               proof : {PaymentProof(h, c) : h \in {H1Lower, H1Upper, H2Lower},
                                             c \in ClientReceipts},
               expectedAmount : {Amt1e15, <<"1", "5">> \o Zeros(15)},
               expectedRecipient : {PayTo, Addr("malformed", "lower")},
               rpcFails : BOOLEAN, out : {NoResult}]
    /\ lg = NoLg
    /\ tmr = NoTmr
    /\ up = NoUp
    /\ pin = NoPin
    /\ px = NoPx
    /\ kp = NoKp
    /\ ttl = NoTtl
    /\ hd = NoHd
    /\ pair = NoPair
    /\ ft = NoFt
    /\ mem = NoMem

\* one call of the verifier
CallVerifier ==
    /\ pf.out = NoResult
    /\ pf' = [pf EXCEPT !.out = Verdict(pf)]
    /\ UNCHANGED <<config, routes, chain, usedTx, req, vtl, lg, tmr, up, pin, px, kp, ttl, hd, pair, ft, mem>>

NextProof == CallVerifier

SpecProof == InitProof /\ [][NextProof]_vars

\* ------------------------------------------------------------------------
\* db/ledger: the request log and its flusher; index: graceful shutdown
\* ------------------------------------------------------------------------
Ids(batch) == {batch[i] : i \in 1..Len(batch)}

\* the process after initDatabase: timer running, nothing buffered
LogStart ==
    [phase |-> "up", logBuffer |-> <<>>, logFlushTimer |-> TRUE, pending |-> {},
     awaited |-> <<>>, requests |-> {}, lost |-> {}, rejected |-> {},
     poolEnding |-> FALSE, n |-> 0, mark |-> 0, issued |-> <<>>]

\* a flush that hands the buffer to pool.query and keeps it
flushLogBufferNoSwap(l) ==
    IF Len(l.logBuffer) = 0 THEN l
    ELSE [l EXCEPT !.pending = @ \cup {l.logBuffer},
                   !.issued = Append(@, [batch |-> l.logBuffer, result |-> "pending"])]

\* flushLogBuffer up to its await: an empty buffer returns at once; otherwise
\* the buffer is swapped for an empty one and the batch handed to pool.query,
\* which rejects on a pool whose end() was called (the catch logs the error)
\* `issued` lists the batches handed to pool.query, in order, each with what
\* became of its INSERT
flushLogBuffer(l) ==
    IF Len(l.logBuffer) = 0 THEN l
    ELSE IF l.poolEnding
         THEN [l EXCEPT !.logBuffer = <<>>,
                        !.rejected = @ \cup Ids(l.logBuffer),
                        !.lost = @ \cup Ids(l.logBuffer),
                        !.issued = Append(@, [batch |-> l.logBuffer, result |-> "rejected"])]
    ELSE [l EXCEPT !.logBuffer = <<>>, !.pending = @ \cup {l.logBuffer},
                   !.issued = Append(@, [batch |-> l.logBuffer, result |-> "pending"])]

\* a catch that puts the failed batch back in front of the buffer
flushLogBufferRequeues(l, batch, fails) ==
    IF fails
    THEN [l EXCEPT !.pending = @ \ {batch}, !.logBuffer = batch \o @,
                   !.issued = [i \in DOMAIN @ |->
                                 IF @[i].batch = batch /\ @[i].result = "pending"
                                 THEN [batch |-> batch, result |-> "failed"]
                                 ELSE @[i]]]
    ELSE [l EXCEPT !.pending = @ \ {batch}, !.requests = @ \cup Ids(batch),
                   !.issued = [i \in DOMAIN @ |->
                                 IF @[i].batch = batch /\ @[i].result = "pending"
                                 THEN [batch |-> batch, result |-> "ok"]
                                 ELSE @[i]]]

\* flushLogBuffer after its await: the rows are in the table, or the catch
\* has logged the error and the batch is gone
flushLogBufferSettles(l, batch, fails) ==
    [l EXCEPT !.pending = @ \ {batch},
              !.requests = IF fails THEN @ ELSE @ \cup Ids(batch),
              !.lost = IF fails THEN @ \cup Ids(batch) ELSE @,
              !.issued = [i \in DOMAIN @ |->
                            IF @[i].batch = batch /\ @[i].result = "pending"
                            THEN [batch |-> batch,
                                  result |-> IF fails THEN "failed" ELSE "ok"]
                            ELSE @[i]]]

\* a logRequest that flushes only once the buffer is over the batch size
logRequestLate(l) ==
    LET pushed == [l EXCEPT !.logBuffer = Append(@, l.n + 1), !.n = @ + 1]
    IN  IF Len(pushed.logBuffer) > LOG_BATCH_SIZE THEN flushLogBuffer(pushed) ELSE pushed

\* logRequest: push, and flush without waiting once the batch is full
logRequest(l) ==
    LET pushed == [l EXCEPT !.logBuffer = Append(@, l.n + 1), !.n = @ + 1]
    IN  IF Len(pushed.logBuffer) >= LOG_BATCH_SIZE THEN flushLogBuffer(pushed) ELSE pushed

\* shutdownDatabase after its flush: clear cleanupTimer, call pool.end()
EndPool(l) == [l EXCEPT !.phase = "end", !.poolEnding = TRUE, !.awaited = <<>>]

\* shutdownDatabase up to its first await
shutdownDatabase(l) ==
    LET stopped == [l EXCEPT !.logFlushTimer = FALSE, !.mark = l.n]
    IN  IF Len(l.logBuffer) = 0 THEN EndPool(stopped)
        ELSE [flushLogBuffer(stopped) EXCEPT !.phase = "flush", !.awaited = l.logBuffer]

InitLog ==
    /\ config \in {c \in Configs : ~c.isDev /\ c.devBypassSecret # ""}
    /\ routes = buildRoutesConfig(config)
    /\ chain = [h \in HashIds |-> RcptMissing]
    /\ usedTx = {}
    /\ req = <<>>
    /\ vtl = NoVtl
    /\ pf = NoPf
    /\ lg = LogStart
    /\ tmr = NoTmr
    /\ up = NoUp
    /\ pin = NoPin
    /\ px = NoPx
    /\ kp = NoKp
    /\ ttl = NoTtl
    /\ hd = NoHd
    /\ pair = NoPair
    /\ ft = NoFt
    /\ mem = NoMem

\* a handler, or the fast-rail middleware's res.end hook, logs a request
LogRequest ==
    /\ lg.phase # "exit"
    /\ lg.n < MaxEntries
    /\ lg' = logRequest(lg)
    /\ UNCHANGED <<config, routes, chain, usedTx, req, vtl, pf, tmr, up, pin, px, kp, ttl, hd, pair, ft, mem>>

\* the interval timer fires
TimerFlush ==
    /\ lg.phase # "exit"
    /\ lg.logFlushTimer
    /\ lg' = flushLogBuffer(lg)
    /\ UNCHANGED <<config, routes, chain, usedTx, req, vtl, pf, tmr, up, pin, px, kp, ttl, hd, pair, ft, mem>>

\* the INSERT of a batch comes back, with rows or with an error; the
\* shutdown that awaited it goes on to pool.end()
InsertDone(batch, fails) ==
    /\ batch \in lg.pending
    /\ LET done == flushLogBufferSettles(lg, batch, fails)
       IN  lg' = IF lg.phase = "flush" /\ batch = lg.awaited THEN EndPool(done) ELSE done
    /\ UNCHANGED <<config, routes, chain, usedTx, req, vtl, pf, tmr, up, pin, px, kp, ttl, hd, pair, ft, mem>>

\* SIGTERM or SIGINT: server.close(), then the wait for in-flight requests
Signal ==
    /\ lg.phase = "up"
    /\ lg' = [lg EXCEPT !.phase = "grace"]
    /\ UNCHANGED <<config, routes, chain, usedTx, req, vtl, pf, tmr, up, pin, px, kp, ttl, hd, pair, ft, mem>>

\* the ten seconds are over: shutdownDatabase()
GraceOver ==
    /\ lg.phase = "grace"
    /\ lg' = shutdownDatabase(lg)
    /\ UNCHANGED <<config, routes, chain, usedTx, req, vtl, pf, tmr, up, pin, px, kp, ttl, hd, pair, ft, mem>>

\* pool.end() resolves once no client is checked out; process.exit(0)
Exit ==
    /\ lg.phase = "end"
    /\ lg.pending = {}
    /\ lg' = [lg EXCEPT !.phase = "exit"]
    /\ UNCHANGED <<config, routes, chain, usedTx, req, vtl, pf, tmr, up, pin, px, kp, ttl, hd, pair, ft, mem>>

InsertStep == \E batch \in lg.pending, fails \in BOOLEAN : InsertDone(batch, fails)

NextLog == LogRequest \/ TimerFlush \/ InsertStep \/ Signal \/ GraceOver \/ Exit

SpecLog == InitLog /\ [][NextLog]_vars

\* setInterval keeps firing until clearInterval
SpecLogLive == SpecLog /\ WF_vars(TimerFlush)

\* ------------------------------------------------------------------------
\* middleware/timeout: the deadline of one request
\* ------------------------------------------------------------------------
TimedPaths ==
    {"/api/llm/chat", "/api/video/fast", "/api/image/fast", "/api/tts/speak",
     "/api/transcribe", "/api/code/run", "/api/travel/flights", "/api/ipfs/pin",
     "/api/weather/current", "/health"}

\* path.startsWith(prefix), for the paths above
startsWith(path, prefix) ==
    <<path, prefix>> \in
        {<<"/api/llm/chat", "/api/llm/">>, <<"/api/video/fast", "/api/video/">>,
         <<"/api/image/fast", "/api/image/">>, <<"/api/tts/speak", "/api/tts/">>,
         <<"/api/transcribe", "/api/transcribe">>, <<"/api/code/run", "/api/code/">>,
         <<"/api/travel/flights", "/api/travel/">>, <<"/api/ipfs/pin", "/api/ipfs/">>}

getTimeoutForPath(path) ==
    IF startsWith(path, "/api/llm/") THEN 180000
    ELSE IF startsWith(path, "/api/video/") THEN 300000
    ELSE IF \/ startsWith(path, "/api/image/") \/ startsWith(path, "/api/tts/")
            \/ startsWith(path, "/api/transcribe") \/ startsWith(path, "/api/code/")
         THEN 90000
    ELSE IF startsWith(path, "/api/travel/") THEN 60000
    ELSE IF startsWith(path, "/api/ipfs/") THEN 60000
    ELSE 30000

\* a response as it leaves the server
Response(status, error, retryable, timeout_ms, elapsed_ms) ==
    [status |-> status, error |-> error, retryable |-> retryable,
     timeout_ms |-> timeout_ms, elapsed_ms |-> elapsed_ms]

\* requestTimeoutMiddleware has armed the timer and called next()
Timed(path) ==
    [path |-> path, timeout |-> getTimeoutForPath(path), now |-> 0, timer |-> "armed",
     headersSent |-> FALSE, finished |-> FALSE, closed |-> FALSE,
     handler |-> "running", responses |-> <<>>]

clearTimeout(t) == IF t.timer = "armed" THEN [t EXCEPT !.timer = "cleared"] ELSE t

\* a timer callback that answers without looking at res.headersSent
onTimeoutUnchecked(t) ==
    [t EXCEPT !.timer = "fired", !.headersSent = TRUE,
              !.responses = Append(@, Response(408, "Request timeout", TRUE,
                                               t.timeout, t.now))]

\* the timer callback
onTimeout(t) ==
    IF ~t.headersSent
    THEN [t EXCEPT !.timer = "fired", !.headersSent = TRUE,
                   !.responses = Append(@, Response(408, "Request timeout", TRUE,
                                                    t.timeout, t.now))]
    ELSE [t EXCEPT !.timer = "fired"]

\* res.status(status).json(...) by a handler or by the global error handler:
\* setting a header after the headers were sent throws
json(t, status, error) ==
    IF t.headersSent THEN [t EXCEPT !.handler = "threw"]
    ELSE [t EXCEPT !.handler = "done", !.headersSent = TRUE,
                   !.responses = Append(@, Response(status, error, status = 503, 0, 0))]

InitTimeout ==
    /\ config \in {c \in Configs : ~c.isDev /\ c.devBypassSecret # ""}
    /\ routes = buildRoutesConfig(config)
    /\ chain = [h \in HashIds |-> RcptMissing]
    /\ usedTx = {}
    /\ req = <<>>
    /\ vtl = NoVtl
    /\ pf = NoPf
    /\ lg = NoLg
    /\ tmr \in {Timed(path) : path \in TimedPaths}
    /\ up = NoUp
    /\ pin = NoPin
    /\ px = NoPx
    /\ kp = NoKp
    /\ ttl = NoTtl
    /\ hd = NoHd
    /\ pair = NoPair
    /\ ft = NoFt
    /\ mem = NoMem

\* time passes: just short of the deadline, the deadline, later
Advance(t) ==
    /\ t > tmr.now
    /\ tmr' = [tmr EXCEPT !.now = t]
    /\ UNCHANGED <<config, routes, chain, usedTx, req, vtl, pf, lg, up, pin, px, kp, ttl, hd, pair, ft, mem>>

\* the setTimeout callback runs, at the deadline or after it
Expire ==
    /\ tmr.timer = "armed"
    /\ tmr.now >= tmr.timeout
    /\ tmr' = onTimeout(tmr)
    /\ UNCHANGED <<config, routes, chain, usedTx, req, vtl, pf, lg, up, pin, px, kp, ttl, hd, pair, ft, mem>>

\* the handler answers, or throws and the global error handler answers
HandlerResponds(status, error) ==
    /\ tmr.handler = "running"
    /\ tmr' = json(tmr, status, error)
    /\ UNCHANGED <<config, routes, chain, usedTx, req, vtl, pf, lg, up, pin, px, kp, ttl, hd, pair, ft, mem>>

\* the response has been handed to the socket: "finish" clears the timer
Finish ==
    /\ tmr.headersSent /\ ~tmr.finished /\ ~tmr.closed
    /\ tmr' = [clearTimeout(tmr) EXCEPT !.finished = TRUE]
    /\ UNCHANGED <<config, routes, chain, usedTx, req, vtl, pf, lg, up, pin, px, kp, ttl, hd, pair, ft, mem>>

\* the client goes away: "close" clears the timer
Close ==
    /\ ~tmr.closed /\ ~tmr.finished
    /\ tmr' = [clearTimeout(tmr) EXCEPT !.closed = TRUE]
    /\ UNCHANGED <<config, routes, chain, usedTx, req, vtl, pf, lg, up, pin, px, kp, ttl, hd, pair, ft, mem>>

AdvanceStep == \E t \in {tmr.timeout - 1, tmr.timeout, tmr.timeout + 1} : Advance(t)

RespondStep ==
    \E o \in {<<200, "">>, <<502, "Upstream error">>, <<503, "Internal error">>} :
        HandlerResponds(o[1], o[2])

NextTimeout == AdvanceStep \/ Expire \/ RespondStep \/ Finish \/ Close

SpecTimeout == InitTimeout /\ [][NextTimeout]_vars

\* ------------------------------------------------------------------------
\* providers/alchemy-nft and apis/nft: one request for NFT metadata
\* ------------------------------------------------------------------------
MAX_RETRIES == 3

\* what one fetch of the provider comes back with: an HTTP status, or 0 for
\* the TimeoutError of the attempt's own AbortSignal.timeout
Outcomes == {200, 404, 429, 500, 0}

NoReply == [status |-> 0, error |-> "", retryable |-> FALSE, upstreamStatus |-> 0]

\* GET /api/nft/metadata has passed validation and missed the cache
Calling(hasKey) ==
    [phase |-> "start", hasKey |-> hasKey, attempt |-> 0, fetches |-> 0, last |-> 0,
     over |-> "", overAt |-> 0, headersSent |-> FALSE, res |-> NoReply]

\* res.json / res.status(s).json of the handler: throws once headers are sent
reply(u, status, error, retryable, upstreamStatus) ==
    IF u.headersSent THEN [u EXCEPT !.phase = "done"]
    ELSE [u EXCEPT !.phase = "done", !.headersSent = TRUE,
                   !.res = [status |-> status, error |-> error, retryable |-> retryable,
                            upstreamStatus |-> upstreamStatus]]

\* the handler's catch: err.status || 500 is logged, the reply is 503
handlerCatch(u, errStatus) ==
    reply(u, 503, "Upstream temporarily unavailable", TRUE,
          IF errStatus = 0 THEN 500 ELSE errStatus)

\* getBaseUrl: keyPool.acquire("alchemy") gave no key
getBaseUrl(u) ==
    IF ~u.hasKey THEN handlerCatch(u, 502)
    ELSE [u EXCEPT !.phase = "fetch", !.fetches = @ + 1]

\* alchemyFetch after one fetch came back
alchemyFetch(u, outcome) ==
    LET retryable == outcome >= 500 \/ outcome = 429 \/ outcome = 0
        seen == [u EXCEPT !.last = outcome]
    IN  IF retryable /\ u.attempt < MAX_RETRIES
        THEN [seen EXCEPT !.phase = "sleep", !.attempt = @ + 1]
        ELSE IF outcome = 200 THEN reply(seen, 200, "", FALSE, 200)
        ELSE handlerCatch(seen, outcome)

InitUp ==
    /\ config \in {c \in Configs : ~c.isDev /\ c.devBypassSecret # ""}
    /\ routes = buildRoutesConfig(config)
    /\ chain = [h \in HashIds |-> RcptMissing]
    /\ usedTx = {}
    /\ req = <<>>
    /\ vtl = NoVtl
    /\ pf = NoPf
    /\ lg = NoLg
    /\ tmr = NoTmr
    /\ up \in {Calling(k) : k \in BOOLEAN}
    /\ pin = NoPin
    /\ px = NoPx
    /\ kp = NoKp
    /\ ttl = NoTtl
    /\ hd = NoHd
    /\ pair = NoPair
    /\ ft = NoFt
    /\ mem = NoMem

\* the handler calls getNftMetadata
CallProvider ==
    /\ up.phase = "start"
    /\ up' = getBaseUrl(up)
    /\ UNCHANGED <<config, routes, chain, usedTx, req, vtl, pf, lg, tmr, pin, px, kp, ttl, hd, pair, ft, mem>>

\* await fetch(url, ...) resolves or rejects
FetchReturns(outcome) ==
    /\ up.phase = "fetch"
    /\ up' = alchemyFetch(up, outcome)
    /\ UNCHANGED <<config, routes, chain, usedTx, req, vtl, pf, lg, tmr, pin, px, kp, ttl, hd, pair, ft, mem>>

\* await sleep(delay) is over: the next attempt's fetch goes out
NextAttempt ==
    /\ up.phase = "sleep"
    /\ up' = [up EXCEPT !.phase = "fetch", !.fetches = @ + 1]
    /\ UNCHANGED <<config, routes, chain, usedTx, req, vtl, pf, lg, tmr, pin, px, kp, ttl, hd, pair, ft, mem>>

\* the request's deadline expires: 408 unless the headers were sent
DeadlineExpires ==
    /\ up.over = ""
    /\ ~up.headersSent
    /\ up' = [up EXCEPT !.over = "deadline", !.overAt = up.fetches, !.headersSent = TRUE,
                        !.res = [status |-> 408, error |-> "Request timeout",
                                 retryable |-> TRUE, upstreamStatus |-> 0]]
    /\ UNCHANGED <<config, routes, chain, usedTx, req, vtl, pf, lg, tmr, pin, px, kp, ttl, hd, pair, ft, mem>>

\* the client closes the connection before the response
ClientDisconnects ==
    /\ up.over = ""
    /\ ~up.headersSent
    /\ up' = [up EXCEPT !.over = "close", !.overAt = up.fetches]
    /\ UNCHANGED <<config, routes, chain, usedTx, req, vtl, pf, lg, tmr, pin, px, kp, ttl, hd, pair, ft, mem>>

FetchStepUp == \E outcome \in Outcomes : FetchReturns(outcome)

NextUp == CallProvider \/ FetchStepUp \/ NextAttempt \/ DeadlineExpires \/ ClientDisconnects

SpecUp == InitUp /\ [][NextUp]_vars

\* ------------------------------------------------------------------------
\* apis/ipfs: POST /api/ipfs/pin and its upload counter
\* ------------------------------------------------------------------------
MAX_CONCURRENT_UPLOADS == 5

\* what the body of a pin request holds
Bodies == {"file", "json", "badjson", "url", "none"}

\* a handler that decrements on its way out, except where it returns early
settleNoFinally(p, i, status) ==
    [p EXCEPT !.activeUploads = IF status = 400 THEN @ ELSE @ - 1,
              !.st[i] = [phase |-> "done", status |-> status]]

\* the handler leaves through finally: activeUploads--
settle(p, i, status) ==
    [p EXCEPT !.activeUploads = @ - 1, !.st[i] = [phase |-> "done", status |-> status]]

\* the handler up to its first await, or to its end when it awaits nothing
pinHandler(p, i, body) ==
    IF p.activeUploads >= MAX_CONCURRENT_UPLOADS
    THEN [p EXCEPT !.st[i] = [phase |-> "busy", status |-> 503]]
    ELSE LET a == [p EXCEPT !.activeUploads = @ + 1]
         IN  CASE body \in {"file", "json"} -> [a EXCEPT !.st[i] = [phase |-> "pinning", status |-> 0]]
               [] body = "badjson" -> settle(a, i, 503)
               [] body = "url" -> [a EXCEPT !.st[i] = [phase |-> "validating", status |-> 0]]
               [] OTHER -> settle(a, i, 400)

InitPin ==
    /\ config \in {c \in Configs : ~c.isDev /\ c.devBypassSecret # ""}
    /\ routes = buildRoutesConfig(config)
    /\ chain = [h \in HashIds |-> RcptMissing]
    /\ usedTx = {}
    /\ req = <<>>
    /\ vtl = NoVtl
    /\ pf = NoPf
    /\ lg = NoLg
    /\ tmr = NoTmr
    /\ up = NoUp
    /\ pin = [activeUploads |-> 0,
              st |-> [i \in 1..MaxUploads |-> [phase |-> "idle", status |-> 0]]]
    /\ px = NoPx
    /\ kp = NoKp
    /\ ttl = NoTtl
    /\ hd = NoHd
    /\ pair = NoPair
    /\ ft = NoFt
    /\ mem = NoMem

\* the i-th pin request reaches the handler
PinArrives(i, body) ==
    /\ pin.st[i].phase = "idle"
    /\ \A j \in 1..(i - 1) : pin.st[j].phase # "idle"
    /\ pin' = pinHandler(pin, i, body)
    /\ UNCHANGED <<config, routes, chain, usedTx, req, vtl, pf, lg, tmr, up, px, kp, ttl, hd, pair, ft, mem>>

\* await isPublicUrl(url): public, not public (400), or it throws (503)
UrlChecked(i, outcome) ==
    /\ pin.st[i].phase = "validating"
    /\ pin' = CASE outcome = "valid" -> [pin EXCEPT !.st[i].phase = "pinning"]
                 [] outcome = "invalid" -> settle(pin, i, 400)
                 [] OTHER -> settle(pin, i, 503)
    /\ UNCHANGED <<config, routes, chain, usedTx, req, vtl, pf, lg, tmr, up, px, kp, ttl, hd, pair, ft, mem>>

\* await pinFile / pinJson / pinFromUrl resolves or rejects
PinReturns(i, ok) ==
    /\ pin.st[i].phase = "pinning"
    /\ pin' = settle(pin, i, IF ok THEN 200 ELSE 503)
    /\ UNCHANGED <<config, routes, chain, usedTx, req, vtl, pf, lg, tmr, up, px, kp, ttl, hd, pair, ft, mem>>

PinArrival == \E i \in 1..MaxUploads, body \in Bodies : PinArrives(i, body)

UrlCheckStep ==
    \E i \in 1..MaxUploads, outcome \in {"valid", "invalid", "throws"} : UrlChecked(i, outcome)

PinReturnStep == \E i \in 1..MaxUploads, ok \in BOOLEAN : PinReturns(i, ok)

NextPin == PinArrival \/ UrlCheckStep \/ PinReturnStep

SpecPin == InitPin /\ [][NextPin]_vars

\* ------------------------------------------------------------------------
\* One call of the 402 advertiser or of the price conversion
\* ------------------------------------------------------------------------
\* the earlier copy of the advertiser: the route's accepts as they are
enriched402MiddlewareWhole(q, rt, verified) ==
    LET hasPayment == q.hdr.kind # "none"
        routeKey   == RouteKey(q.method, q.path)
    IN  IF hasPayment THEN SdkGate(q, verified)
        ELSE IF routeKey \notin DOMAIN rt THEN SdkGate(q, verified)
        ELSE [q EXCEPT !.st = "done",
                       !.res = [sent |-> TRUE, status |-> 402, paymentRequired |-> TRUE,
                                x402Version |-> 2, accepts |-> rt[routeKey].accepts,
                                error |-> "Payment required", reason |-> ""]]

AdvertCalls ==
    [fn : {"advert"}, variant : {"strip", "whole"}, method : {"GET", "POST"},
     path : {"/api/weather/current", "/api/image/fast", "/api/none"},
     hdr : {NoHdr, JsonHdr(NETWORKS.base, NoTx)}, out : {NoRes}]

PriceChars == {"0", "1", "9", ".", "-", "e", "$"}

Pending == <<"pending">>

PriceCalls ==
    [fn : {"price"}, price : BoundedSeq(PriceChars, MaxLen), decimals : {1, 2},
     out : {Pending}]

InitPure ==
    /\ config \in {c \in Configs : ~c.isDev /\ c.devBypassSecret # ""}
    /\ routes = buildRoutesConfig(config)
    /\ chain = [h \in HashIds |-> RcptMissing]
    /\ usedTx = {}
    /\ req = <<>>
    /\ vtl = NoVtl
    /\ pf = NoPf
    /\ lg = NoLg
    /\ tmr = NoTmr
    /\ up = NoUp
    /\ pin = NoPin
    /\ px \in AdvertCalls \cup PriceCalls
    /\ kp = NoKp
    /\ ttl = NoTtl
    /\ hd = NoHd
    /\ pair = NoPair
    /\ ft = NoFt
    /\ mem = NoMem

\* a request reaches the advertiser
Advertise ==
    /\ px.fn = "advert"
    /\ px.out = NoRes
    /\ LET q == [IdleReq EXCEPT !.origin = "route", !.method = px.method,
                                !.path = px.path, !.hdr = px.hdr]
       IN  px' = [px EXCEPT !.out = IF px.variant = "strip"
                                    THEN enriched402Middleware(q, routes, FALSE).res
                                    ELSE enriched402MiddlewareWhole(q, routes, FALSE).res]
    /\ UNCHANGED <<config, routes, chain, usedTx, req, vtl, pf, lg, tmr, up, pin, kp, ttl, hd, pair, ft, mem>>

\* priceStringToTokenAmount(price, decimals) returns or throws
Convert ==
    /\ px.fn = "price"
    /\ px.out = Pending
    /\ px' = [px EXCEPT !.out = priceStringToTokenAmount(px.price, px.decimals)]
    /\ UNCHANGED <<config, routes, chain, usedTx, req, vtl, pf, lg, tmr, up, pin, kp, ttl, hd, pair, ft, mem>>

NextPure == Advertise \/ Convert

SpecPure == InitPure /\ [][NextPure]_vars

\* ------------------------------------------------------------------------
\* Specification of the key pool (class KeyPool)
\* ------------------------------------------------------------------------
Providers == {"alchemy"}

\* provider tags a caller may pass; "unknown" is never registered
Tags == Providers \cup {"unknown"}

Secrets == {"", "k1", "k2"}

KeyLists == BoundedSeq(Secrets, MaxKeys)

\* a Map without the provider
NoPool == [present |-> FALSE, keys |-> <<>>, index |-> 0, totalAcquires |-> 0]

\* what acquire returns: a key, or null
Null == [null |-> TRUE, key |-> ""]

Key(k) == [null |-> FALSE, key |-> k]

\* keys.filter(Boolean): the empty string is the only falsy string
FilterBoolean(keys) == SelectSeq(keys, LAMBDA k : k # "")

\* register without the filter
registerUnfiltered(pools, provider, keys) ==
    IF Len(keys) = 0 THEN pools
    ELSE [pools EXCEPT ![provider] =
              [present |-> TRUE, keys |-> keys, index |-> 0, totalAcquires |-> 0]]

register(pools, provider, keys) ==
    LET filtered == FilterBoolean(keys)
    IN  IF Len(filtered) = 0 THEN pools
        ELSE [pools EXCEPT ![provider] =
                  [present |-> TRUE, keys |-> filtered, index |-> 0, totalAcquires |-> 0]]

\* acquire: the pools afterwards and the value returned (index is 0-based)
acquire(pools, provider) ==
    LET pool == pools[provider]
    IN  IF ~pool.present \/ Len(pool.keys) = 0
        THEN [pools |-> pools, ret |-> Null]
        ELSE [pools |-> [pools EXCEPT ![provider] =
                            [pool EXCEPT !.index = (pool.index + 1) % Len(pool.keys),
                                         !.totalAcquires = pool.totalAcquires + 1]],
              ret |-> Key(pool.keys[pool.index + 1])]

\* pools: the Map of the class.  given, made, calls, last record the calls:
\* the list passed to the registration in force, the acquires since then,
\* all acquires, and the last acquire with what it returned.
InitKeys ==
    /\ config \in {c \in Configs : ~c.isDev /\ c.devBypassSecret # ""}
    /\ routes = buildRoutesConfig(config)
    /\ chain = [h \in HashIds |-> RcptMissing]
    /\ usedTx = {}
    /\ req = <<>>
    /\ vtl = NoVtl
    /\ pf = NoPf
    /\ lg = NoLg
    /\ tmr = NoTmr
    /\ up = NoUp
    /\ pin = NoPin
    /\ px = NoPx
    /\ kp = [pools |-> [p \in Tags |-> NoPool],
             given |-> [p \in Tags |-> <<>>],
             made  |-> [p \in Tags |-> 0],
             calls |-> 0,
             last  |-> [provider |-> "", ret |-> Null]]
    /\ ttl = NoTtl
    /\ hd = NoHd
    /\ pair = NoPair
    /\ ft = NoFt
    /\ mem = NoMem

Register(provider, keys) ==
    /\ LET after == register(kp.pools, provider, keys)
       IN  kp' = [kp EXCEPT !.pools = after,
                            !.given[provider] =
                                IF FilterBoolean(keys) # <<>> THEN keys ELSE @,
                            !.made[provider] =
                                IF FilterBoolean(keys) # <<>> THEN 0 ELSE @]
    /\ UNCHANGED <<config, routes, chain, usedTx, req, vtl, pf, lg, tmr, up, pin, px, ttl,
                   hd, pair, ft, mem>>

Acquire(provider) ==
    /\ kp.calls < MaxAcquires
    /\ LET a == acquire(kp.pools, provider)
       IN  kp' = [kp EXCEPT !.pools = a.pools,
                            !.made[provider] = @ + 1,
                            !.calls = @ + 1,
                            !.last = [provider |-> provider, ret |-> a.ret]]
    /\ UNCHANGED <<config, routes, chain, usedTx, req, vtl, pf, lg, tmr, up, pin, px, ttl,
                   hd, pair, ft, mem>>

RegisterStep == \E p \in Providers, keys \in KeyLists : Register(p, keys)

AcquireStep == \E p \in Tags : Acquire(p)

NextKeys == RegisterStep \/ AcquireStep

SpecKeys == InitKeys /\ [][NextKeys]_vars

\* ------------------------------------------------------------------------
\* Specification of the response cache (class TTLCache)
\* ------------------------------------------------------------------------
CacheKeys == {"a", "b"}

CacheData == {"d1", "d2"}

\* a Map without the key
NoEntry == [present |-> FALSE, data |-> "", expiresAt |-> 0]

\* what get returns: the data, or undefined
Undefined == [undefined |-> TRUE, data |-> ""]

Data(d) == [undefined |-> FALSE, data |-> d]

\* the ttlMs argument of set: a number, or left out
TtlArgs == {[given |-> FALSE, ms |-> 0]} \cup [given : {TRUE}, ms : 0..MaxTtl]

\* get that leaves the expired entry in the store
getNoEvict(store, key, now) ==
    LET entry == store[key]
    IN  IF ~entry.present THEN [store |-> store, ret |-> Undefined]
        ELSE IF now > entry.expiresAt THEN [store |-> store, ret |-> Undefined]
        ELSE [store |-> store, ret |-> Data(entry.data)]

\* get: the store afterwards and the value returned
get(store, key, now) ==
    LET entry == store[key]
    IN  IF ~entry.present THEN [store |-> store, ret |-> Undefined]
        ELSE IF now > entry.expiresAt
             THEN [store |-> [store EXCEPT ![key] = NoEntry], ret |-> Undefined]
        ELSE [store |-> store, ret |-> Data(entry.data)]

set(store, key, data, ttlMs, defaultTtlMs, now) ==
    [store EXCEPT ![key] =
        [present |-> TRUE, data |-> data,
         expiresAt |-> now + (IF ttlMs.given THEN ttlMs.ms ELSE defaultTtlMs)]]

clear(store) == [k \in DOMAIN store |-> NoEntry]

\* now: the reading of Date.now().  written and last record the calls: per
\* key the last set still in force (its data, its time and its time to
\* live), and the last get with what it returned.
InitCache ==
    /\ config \in {c \in Configs : ~c.isDev /\ c.devBypassSecret # ""}
    /\ routes = buildRoutesConfig(config)
    /\ chain = [h \in HashIds |-> RcptMissing]
    /\ usedTx = {}
    /\ req = <<>>
    /\ vtl = NoVtl
    /\ pf = NoPf
    /\ lg = NoLg
    /\ tmr = NoTmr
    /\ up = NoUp
    /\ pin = NoPin
    /\ px = NoPx
    /\ kp = NoKp
    /\ \E d \in 1..MaxTtl :
          ttl = [defaultTtlMs |-> d,
                 now |-> 0,
                 store |-> [k \in CacheKeys |-> NoEntry],
                 written |-> [k \in CacheKeys |-> [set |-> FALSE, data |-> "", at |-> 0,
                                                   ms |-> 0]],
                 gets |-> 0,
                 last |-> [key |-> "", ret |-> Undefined]]
    /\ hd = NoHd
    /\ pair = NoPair
    /\ ft = NoFt
    /\ mem = NoMem

CacheSet(key, data, ttlMs) ==
    /\ ttl' = [ttl EXCEPT
                  !.store = set(ttl.store, key, data, ttlMs, ttl.defaultTtlMs, ttl.now),
                  !.written[key] =
                      [set |-> TRUE, data |-> data, at |-> ttl.now,
                       ms |-> IF ttlMs.given THEN ttlMs.ms ELSE ttl.defaultTtlMs]]
    /\ UNCHANGED <<config, routes, chain, usedTx, req, vtl, pf, lg, tmr, up, pin, px, kp,
                   hd, pair, ft, mem>>

CacheGet(key) ==
    /\ LET g == get(ttl.store, key, ttl.now)
       IN  ttl' = [ttl EXCEPT !.store = g.store,
                              !.gets = 1 - @,
                              !.last = [key |-> key, ret |-> g.ret]]
    /\ UNCHANGED <<config, routes, chain, usedTx, req, vtl, pf, lg, tmr, up, pin, px, kp,
                   hd, pair, ft, mem>>

CacheClear ==
    /\ ttl' = [ttl EXCEPT !.store = clear(ttl.store),
                          !.written = [k \in CacheKeys |-> [set |-> FALSE, data |-> "",
                                                            at |-> 0, ms |-> 0]]]
    /\ UNCHANGED <<config, routes, chain, usedTx, req, vtl, pf, lg, tmr, up, pin, px, kp,
                   hd, pair, ft, mem>>

\* time passes between two calls
ClockTick ==
    /\ ttl.now < MaxTime
    /\ ttl' = [ttl EXCEPT !.now = @ + 1]
    /\ UNCHANGED <<config, routes, chain, usedTx, req, vtl, pf, lg, tmr, up, pin, px, kp,
                   hd, pair, ft, mem>>

CacheSetStep == \E k \in CacheKeys, d \in CacheData, t \in TtlArgs : CacheSet(k, d, t)

CacheGetStep == \E k \in CacheKeys : CacheGet(k)

NextCache == CacheSetStep \/ CacheGetStep \/ CacheClear \/ ClockTick

SpecCache == InitCache /\ [][NextCache]_vars

\* ------------------------------------------------------------------------
\* The retry loops of the providers: alchemyFetch, geckoFetch, openrouterFetch
\* ------------------------------------------------------------------------
BASE_DELAY_MS == 500

GECKO_MAX_RETRIES == 3

OPENROUTER_MAX_RETRIES == 2

\* Math.random() * 200 lies in [0, 200); its least and a large value
Jitter == {0, 199}

\* what one fetch comes back with: an HTTP status, 0 for the TimeoutError of
\* AbortSignal.timeout, -1 for the TypeError of a failed connection
FetchOutcomes == {200, 404, 429, 500, 503, 0, -1}

Dispatchers == {"alchemy", "gecko", "openrouter"}

MaxRetries(fn) ==
    CASE fn = "alchemy" -> MAX_RETRIES
      [] fn = "gecko" -> GECKO_MAX_RETRIES
      [] fn = "openrouter" -> OPENROUTER_MAX_RETRIES

\* the tests that lead to `continue` when attempt < MAX_RETRIES
alchemyRetries(outcome) == outcome >= 500 \/ outcome = 429 \/ outcome = 0

geckoRetries(outcome) == outcome >= 500 \/ outcome = 0 \/ outcome = -1

openrouterRetries(outcome) == outcome >= 500 \/ outcome = 0

Retries(fn, outcome) ==
    CASE fn = "alchemy" -> alchemyRetries(outcome)
      [] fn = "gecko" -> geckoRetries(outcome)
      [] fn = "openrouter" -> openrouterRetries(outcome)

RECURSIVE Pow2(_)
Pow2(n) == IF n = 0 THEN 1 ELSE 2 * Pow2(n - 1)

\* the loop of a dispatcher starts its first attempt
Looping(fn) ==
    [fn |-> fn, phase |-> "fetch", attempt |-> 0, fetches |-> 1, outcomes |-> <<>>,
     delays |-> <<>>, result |-> 0]

\* the body of the loop after the fetch of this attempt came back: continue,
\* return data, or throw the error of this attempt
afterFetch(f, outcome) ==
    LET seen == [f EXCEPT !.outcomes = Append(@, outcome)]
    IN  IF Retries(f.fn, outcome) /\ f.attempt < MaxRetries(f.fn)
        THEN [seen EXCEPT !.phase = "sleep", !.attempt = @ + 1]
        ELSE IF outcome = 200 THEN [seen EXCEPT !.phase = "returned", !.result = 200]
        ELSE [seen EXCEPT !.phase = "threw", !.result = outcome]

\* await sleep(delay) at the head of the next iteration, then its fetch
sleepThenFetch(f, random) ==
    [f EXCEPT !.phase = "fetch", !.fetches = @ + 1,
              !.delays = Append(@, BASE_DELAY_MS * Pow2(f.attempt - 1) + random)]

InitFetch ==
    /\ config \in {c \in Configs : ~c.isDev /\ c.devBypassSecret # ""}
    /\ routes = buildRoutesConfig(config)
    /\ chain = [h \in HashIds |-> RcptMissing]
    /\ usedTx = {}
    /\ req = <<>>
    /\ vtl = NoVtl
    /\ pf = NoPf
    /\ lg = NoLg
    /\ tmr = NoTmr
    /\ up = NoUp
    /\ pin = NoPin
    /\ px = NoPx
    /\ kp = NoKp
    /\ ttl = NoTtl
    /\ hd = NoHd
    /\ pair = NoPair
    /\ ft \in {Looping(fn) : fn \in Dispatchers}
    /\ mem = NoMem

FetchComesBack(outcome) ==
    /\ ft.phase = "fetch"
    /\ ft' = afterFetch(ft, outcome)
    /\ UNCHANGED <<config, routes, chain, usedTx, req, vtl, pf, lg, tmr, up, pin, px, kp,
                   ttl, hd, pair, mem>>

SleepOver(random) ==
    /\ ft.phase = "sleep"
    /\ ft' = sleepThenFetch(ft, random)
    /\ UNCHANGED <<config, routes, chain, usedTx, req, vtl, pf, lg, tmr, up, pin, px, kp,
                   ttl, hd, pair, mem>>

FetchBackStep == \E outcome \in FetchOutcomes : FetchComesBack(outcome)

SleepStep == \E random \in Jitter : SleepOver(random)

NextFetch == FetchBackStep \/ SleepStep

SpecFetch == InitFetch /\ [][NextFetch]_vars

\* ------------------------------------------------------------------------
\* One paid handler behind the deadline and the fast-rail middleware
\* ------------------------------------------------------------------------
\* /api/nft/metadata answers an upstream failure with 503, /api/crypto/price
\* with 502
FailureStatus(handler) == IF handler = "nft-metadata" THEN 503 ELSE 502

\* how the request was paid: verified by the fast-rail middleware that logs
\* when the response ends ("hook"), by its earlier copy that logs when the
\* verification returns ("early"), or by another rail ("sdk")
Rails == {"hook", "early", "sdk"}

NoCall ==
    [phase |-> "idle", mw |-> "sdk", valid |-> FALSE, hooked |-> FALSE,
     headersSent |-> FALSE, statusCode |-> 0, ended |-> FALSE, endedAt |-> 0,
     armed |-> FALSE, closed |-> FALSE, start |-> 0, handlerStart |-> 0]

\* logRequest(entry): the entry joins the buffer
logEntry(h, service, upstreamStatus, latencyMs) ==
    [h EXCEPT !.log = Append(@, [service |-> service, upstreamStatus |-> upstreamStatus,
                                 latencyMs |-> latencyMs])]

\* res.end, replaced by the fast-rail middleware once it has verified
end(h) ==
    LET logged == IF h.cur.hooked
                  THEN logEntry(h, "megaeth-payment", h.cur.statusCode, h.now - h.cur.start)
                  ELSE h
    IN  [logged EXCEPT !.cur.ended = TRUE, !.cur.endedAt = h.now, !.cur.armed = FALSE]

\* res.status(s).json(body): throws once the headers are sent
resJson(h, status) ==
    IF h.cur.headersSent THEN h
    ELSE end([h EXCEPT !.cur.headersSent = TRUE, !.cur.statusCode = status])

\* the earlier copy of the middleware, after a valid verdict: logRequest with
\* upstreamStatus 200, then next()
megaethVerifiedEarly(h) == logEntry(h, "megaeth-payment", 200, h.now - h.cur.start)

\* the middleware after a valid verdict: res.end is replaced, then next()
megaethVerified(h) == [h EXCEPT !.cur.hooked = TRUE]

\* the handler up to its first await: validation, cache, then the upstream call
handlerEnters(h) ==
    IF ~h.cur.valid THEN [resJson(h, 400) EXCEPT !.cur.phase = "done"]
    ELSE IF h.cacheLive THEN [resJson(h, 200) EXCEPT !.cur.phase = "done"]
    ELSE [h EXCEPT !.cur.phase = "upstream", !.cur.handlerStart = h.now]

\* try / catch / finally of the handler after the upstream call settled;
\* errStatus is err.status of the upstream error, 0 when it has none; a
\* res.json that throws in the try block lands in the catch
handlerSettles(h, ok, errStatus) ==
    LET upstreamStatus == IF ok /\ ~h.cur.headersSent THEN 200
                          ELSE IF ok THEN 500
                          ELSE IF errStatus = 0 THEN 500 ELSE errStatus
        cached == IF ok THEN [h EXCEPT !.cacheLive = TRUE] ELSE h
        replied == resJson(cached, IF ok THEN 200 ELSE FailureStatus(h.handler))
    IN  [logEntry(replied, h.handler, upstreamStatus, h.now - h.cur.handlerStart)
            EXCEPT !.cur.phase = "done"]

\* the callback of the deadline's setTimeout
onDeadline(h) ==
    IF ~h.cur.headersSent THEN [resJson(h, 408) EXCEPT !.cur.armed = FALSE]
    ELSE [h EXCEPT !.cur.armed = FALSE]

InitHandler ==
    /\ config \in {c \in Configs : ~c.isDev /\ c.devBypassSecret # ""}
    /\ routes = buildRoutesConfig(config)
    /\ chain = [h \in HashIds |-> RcptMissing]
    /\ usedTx = {}
    /\ req = <<>>
    /\ vtl = NoVtl
    /\ pf = NoPf
    /\ lg = NoLg
    /\ tmr = NoTmr
    /\ up = NoUp
    /\ pin = NoPin
    /\ px = NoPx
    /\ kp = NoKp
    /\ ttl = NoTtl
    /\ \E handler \in {"nft-metadata", "crypto-price"} :
          hd = [handler |-> handler, cacheLive |-> FALSE, n |-> 0, now |-> 0,
                cur |-> NoCall, log |-> <<>>]
    /\ pair = NoPair
    /\ ft = NoFt
    /\ mem = NoMem

\* a request for the handler's path arrives with its payment; the deadline
\* is armed before the payment middlewares run
Arrive(mw, valid) ==
    /\ hd.cur.phase \in {"idle", "done"}
    /\ hd.n < MaxHandled
    /\ hd' = [hd EXCEPT !.n = @ + 1, !.log = <<>>,
                        !.cur = [NoCall EXCEPT !.phase = "paying", !.mw = mw,
                                               !.valid = valid, !.armed = TRUE,
                                               !.start = hd.now]]
    /\ UNCHANGED <<config, routes, chain, usedTx, req, vtl, pf, lg, tmr, up, pin, px, kp,
                   ttl, pair, ft, mem>>

\* the verification of the payment returns valid and the request goes on to
\* the handler
PaymentSettles ==
    /\ hd.cur.phase = "paying"
    /\ hd' = handlerEnters(CASE hd.cur.mw = "hook" -> megaethVerified(hd)
                             [] hd.cur.mw = "early" -> megaethVerifiedEarly(hd)
                             [] OTHER -> hd)
    /\ UNCHANGED <<config, routes, chain, usedTx, req, vtl, pf, lg, tmr, up, pin, px, kp,
                   ttl, pair, ft, mem>>

\* the provider call of the handler resolves or rejects
UpstreamSettles(ok, errStatus) ==
    /\ hd.cur.phase = "upstream"
    /\ hd' = handlerSettles(hd, ok, errStatus)
    /\ UNCHANGED <<config, routes, chain, usedTx, req, vtl, pf, lg, tmr, up, pin, px, kp,
                   ttl, pair, ft, mem>>

DeadlineFires ==
    /\ hd.cur.armed
    /\ hd' = onDeadline(hd)
    /\ UNCHANGED <<config, routes, chain, usedTx, req, vtl, pf, lg, tmr, up, pin, px, kp,
                   ttl, pair, ft, mem>>

\* the client closes the connection before the response: "close" clears the
\* deadline
ClientCloses ==
    /\ hd.cur.phase \in {"paying", "upstream"}
    /\ ~hd.cur.ended /\ ~hd.cur.closed
    /\ hd' = [hd EXCEPT !.cur.closed = TRUE, !.cur.armed = FALSE]
    /\ UNCHANGED <<config, routes, chain, usedTx, req, vtl, pf, lg, tmr, up, pin, px, kp,
                   ttl, pair, ft, mem>>

\* time passes
TimePasses ==
    /\ hd.now < MaxTime
    /\ hd' = [hd EXCEPT !.now = @ + 1]
    /\ UNCHANGED <<config, routes, chain, usedTx, req, vtl, pf, lg, tmr, up, pin, px, kp,
                   ttl, pair, ft, mem>>

\* the cached answer outlives its time to live
CacheExpires ==
    /\ hd.cacheLive
    /\ hd' = [hd EXCEPT !.cacheLive = FALSE]
    /\ UNCHANGED <<config, routes, chain, usedTx, req, vtl, pf, lg, tmr, up, pin, px, kp,
                   ttl, pair, ft, mem>>

ArriveStep == \E mw \in Rails, valid \in BOOLEAN : Arrive(mw, valid)

UpstreamStep ==
    \E o \in {<<TRUE, 0>>, <<FALSE, 0>>, <<FALSE, 404>>, <<FALSE, 502>>} :
        UpstreamSettles(o[1], o[2])

NextHandler ==
    \/ ArriveStep
    \/ PaymentSettles
    \/ UpstreamStep
    \/ DeadlineFires
    \/ ClientCloses
    \/ TimePasses
    \/ CacheExpires

SpecHandler == InitHandler /\ [][NextHandler]_vars

\* ------------------------------------------------------------------------
\* verification/megaeth: overlapping calls of the verifier with the
\* in-memory set of used hashes
\* ------------------------------------------------------------------------
NoInvocation == [st |-> "idle", txHash |-> NoHash, result |-> NoResult]

\* the call up to its await: lower-case the hash, look it up in the set
memoryBegins(m, i, proof) ==
    LET txHash == toLowerCase(proof.txHash)
    IN  IF txHash \in m.usedTxHashes
        THEN [m EXCEPT !.inv[i] = [st |-> "done", txHash |-> txHash,
                                   result |-> Result(FALSE, ErrUsed, NoAddr)]]
        ELSE [m EXCEPT !.inv[i] = [st |-> "fetch", txHash |-> txHash, result |-> NoResult]]

\* the call after await client.getTransactionReceipt: the checks, then
\* usedTxHashes.add(txHash) and the valid verdict
memoryResumes(m, i, ch, expectedAmount, expectedRecipient, rpcFails) ==
    LET txHash  == m.inv[i].txHash
        receipt == getTransactionReceipt(ch, txHash)
        result  == IF rpcFails \/ ~receipt.found THEN Result(FALSE, ErrNotFound, NoAddr)
                   ELSE IF receipt.status # "success" THEN Result(FALSE, ErrReverted, NoAddr)
                   ELSE verifyTransferLogsInMemory(receipt.logs, expectedAmount,
                                                   expectedRecipient)
    IN  [m EXCEPT !.inv[i].st = "done", !.inv[i].result = result,
                  !.usedTxHashes = IF result.valid THEN @ \cup {txHash} ELSE @]

InitMemory ==
    /\ config \in {c \in Configs : ~c.isDev /\ c.devBypassSecret # ""}
    /\ routes = buildRoutesConfig(config)
    /\ chain \in [HashIds -> {RcptExact, RcptSplit, RcptReverted, RcptMissing}]
    /\ usedTx = {}
    /\ req = <<>>
    /\ vtl = NoVtl
    /\ pf = NoPf
    /\ lg = NoLg
    /\ tmr = NoTmr
    /\ up = NoUp
    /\ pin = NoPin
    /\ px = NoPx
    /\ kp = NoKp
    /\ ttl = NoTtl
    /\ hd = NoHd
    /\ pair = NoPair
    /\ ft = NoFt
    /\ mem = [usedTxHashes |-> {}, inv |-> [i \in 1..MaxInv |-> NoInvocation]]

\* verifyMegaETHPayment(proof, expectedAmount, expectedRecipient) is called
MemoryCall(i, h) ==
    /\ mem.inv[i].st = "idle"
    /\ mem' = memoryBegins(mem, i, PaymentProof(h, NoClientReceipt))
    /\ UNCHANGED <<config, routes, chain, usedTx, req, vtl, pf, lg, tmr, up, pin, px, kp,
                   ttl, hd, pair, ft>>

\* the receipt fetch of a call resolves or rejects
MemoryFetched(i, rpcFails) ==
    /\ mem.inv[i].st = "fetch"
    /\ mem' = memoryResumes(mem, i, chain, Amt1e15, PayTo, rpcFails)
    /\ UNCHANGED <<config, routes, chain, usedTx, req, vtl, pf, lg, tmr, up, pin, px, kp,
                   ttl, hd, pair, ft>>

MemoryCallStep == \E i \in 1..MaxInv, h \in {H1Lower, H1Upper, H2Lower} : MemoryCall(i, h)

MemoryFetchStep == \E i \in 1..MaxInv, rpcFails \in BOOLEAN : MemoryFetched(i, rpcFails)

NextMemory == MemoryCallStep \/ MemoryFetchStep

SpecMemory == InitMemory /\ [][NextMemory]_vars

\* ------------------------------------------------------------------------
\* Two requests that differ only in what the client says it accepted
\* ------------------------------------------------------------------------
\* a fast-rail header with a tx hash and the client's accepted fields
ClientHdr(tx, accepted) == [JsonHdr(NETWORKS.megaeth, tx) EXCEPT !.accepted = accepted]

ClientAccepted ==
    [amount : {<<"0">>, Amt1e15}, payTo : {PayTo, Addr("other", "lower")},
     asset : {Usdm, Addr("otherToken", "lower")}]

\* the fast-rail middleware and the verification it awaits, run to the
\* response on a ledger and a chain that nothing else touches meanwhile
fastRailAlone(q, rt, used, ch, rpcFails, verified) ==
    LET m == megaethPaymentMiddleware(q, rt, used, verified)
    IN  IF m.st # "probe" THEN m
        ELSE Resume([m EXCEPT !.result =
                        verifyMegaETHPayment(PaymentProof(m.txHash, NoClientReceipt),
                                             m.expectedAmount, m.expectedRecipient,
                                             used, ch, rpcFails)],
                    rt, verified)

\* first and second are the two requests; each is served from the same state
\* of the ledger and of the chain, so usedTx stays as it was at the start
InitPair ==
    /\ config \in {c \in Configs : ~c.isDev /\ c.devBypassSecret # ""}
    /\ routes = buildRoutesConfig(config)
    /\ chain \in {c \in [HashIds -> {RcptExact, RcptSplit, RcptWrongTo}] : c["h2"] = RcptSplit}
    /\ usedTx \in {{}, {[tx_hash |-> H1Lower, payer |-> Payer1, amount |-> Amt1e15,
                        network |-> MEGAETH_CONFIG.caip2]}}
    /\ req = <<>>
    /\ vtl = NoVtl
    /\ pf = NoPf
    /\ lg = NoLg
    /\ tmr = NoTmr
    /\ up = NoUp
    /\ pin = NoPin
    /\ px = NoPx
    /\ kp = NoKp
    /\ ttl = NoTtl
    /\ hd = NoHd
    /\ \E key \in RouteKeys, tx \in {NoTx, TxOf(H1Lower), TxOf(H1Upper)},
          a \in ClientAccepted, b \in ClientAccepted, rpcFails \in BOOLEAN :
          pair = [rpcFails |-> rpcFails,
                  first  |-> [IdleReq EXCEPT !.origin = "route", !.method = key[1],
                                             !.path = key[2], !.hdr = ClientHdr(tx, a)],
                  second |-> [IdleReq EXCEPT !.origin = "route", !.method = key[1],
                                             !.path = key[2], !.hdr = ClientHdr(tx, b)]]
    /\ ft = NoFt
    /\ mem = NoMem

ServeFirst ==
    /\ pair.first.st = "idle"
    /\ pair' = [pair EXCEPT !.first = fastRailAlone(pair.first, routes, usedTx, chain,
                                                   pair.rpcFails, FALSE)]
    /\ UNCHANGED <<config, routes, chain, usedTx, req, vtl, pf, lg, tmr, up, pin, px, kp,
                   ttl, hd, ft, mem>>

ServeSecond ==
    /\ pair.second.st = "idle"
    /\ pair' = [pair EXCEPT !.second = fastRailAlone(pair.second, routes, usedTx, chain,
                                                    pair.rpcFails, FALSE)]
    /\ UNCHANGED <<config, routes, chain, usedTx, req, vtl, pf, lg, tmr, up, pin, px, kp,
                   ttl, hd, ft, mem>>

NextPair == ServeFirst \/ ServeSecond

SpecPair == InitPair /\ [][NextPair]_vars

\* ------------------------------------------------------------------------
\* One request whose method and path are spelled as the client likes
\* ------------------------------------------------------------------------
InitRoute ==
    /\ config \in {c \in Configs : ~c.isDev}
    /\ routes = buildRoutesConfig(config)
    /\ chain \in {c \in [HashIds -> {RcptExact, RcptSplit, RcptReverted}] : c["h2"] = RcptSplit}
    /\ usedTx = {}
    /\ req = <<IdleReq>>
    /\ vtl = NoVtl
    /\ pf = NoPf
    /\ lg = NoLg
    /\ tmr = NoTmr
    /\ up = NoUp
    /\ pin = NoPin
    /\ px = NoPx
    /\ kp = NoKp
    /\ ttl = NoTtl
    /\ hd = NoHd
    /\ pair = NoPair
    /\ ft = NoFt
    /\ mem = NoMem

SpelledRequest(r) ==
    \E method \in {"GET", "HEAD", "POST"}, p \in PathSpellings,
       hdr \in {NoHdr, Garbage, JsonHdr(NETWORKS.base, NoTx),
                JsonHdr(NETWORKS.megaeth, TxOf(H1Lower))},
       verified \in BOOLEAN :
        Request(r, method, p.raw, "", hdr, verified)

NextRoute ==
    \E r \in DOMAIN req :
        \/ SpelledRequest(r)
        \/ ProbeStep(r)
        \/ FetchStep(r)
        \/ RecordStep(r)

SpecRoute == InitRoute /\ [][NextRoute]_vars

\* ------------------------------------------------------------------------
\* Properties of the request pipeline
\* ------------------------------------------------------------------------
\* verifyMegaETHPayment has returned a result to its caller
Returned(r) == req[r].st = "done" /\ req[r].result # NoResult

ReturnedValid(r) == Returned(r) /\ req[r].result.valid

\* a request that went through the middleware chain and got its response
Answered(r) == req[r].origin = "route" /\ req[r].st = "done"

\* the payment of a request was verified, on chain or by a facilitator
PaymentVerified(r) == req[r].result.valid \/ req[r].sdkVerified

\* the 402 that a request for (method, path) without a payment header gets
Advertisement(method, path) ==
    enriched402Middleware([IdleReq EXCEPT !.origin = "route", !.method = method,
                                          !.path = path], routes, FALSE).res

\* C11: outside the development environment, or without a configured secret,
\* no X-DEV-BYPASS value marks a request dev-bypassed; in development with a
\* secret exactly the header equal to the secret does.
C11_BypassOnlyInDev ==
    \A r \in DOMAIN req :
        req[r].origin = "route" =>
            (req[r].devBypassed <=>
                /\ config.isDev
                /\ config.devBypassSecret # ""
                /\ req[r].bypassHdr = config.devBypassSecret)

\* the secret itself sent to a production server marks nothing
C11_Witness ==
    \E r \in DOMAIN req :
        /\ req[r].origin = "route" /\ ~config.isDev
        /\ config.devBypassSecret # ""
        /\ req[r].bypassHdr = config.devBypassSecret
        /\ ~req[r].devBypassed

\* a tx hash or a recipient that is not 0x followed by 64 / 40 hex characters
MalformedProof(r) ==
    /\ req[r].hdr.tx.kind = "hash" \/ req[r].origin = "facilitator"
    /\ req[r].txHash.id = "short" \/ ~IsAddressFormat(req[r].expectedRecipient)

\* C12 as stated: a fast-rail proof with a malformed tx hash or a malformed
\* expected recipient is rejected as a malformed proof before any receipt is
\* requested from the RPC.
C12_Original ==
    \A r \in DOMAIN req :
        (req[r].txHash # NoHash /\ MalformedProof(r)) =>
            /\ req[r].st # "fetch"
            /\ Returned(r) => req[r].result.error \notin {ErrNotFound, ErrUsed}

\* the receipt of "0x1234" is about to be requested from the RPC
C12_Witness ==
    \E r \in DOMAIN req :
        /\ req[r].origin = "route" /\ req[r].hdr.tx = TxOf(ShortHash)
        /\ req[r].st = "fetch"

\* C13 as stated: a receipt request that fails with an error or a timeout
\* gives the verdict upstream_unavailable; the verdict is not_found only when
\* the RPC reports that the hash has no receipt.
C13_Original ==
    \A r \in DOMAIN req :
        (Returned(r) /\ req[r].result.error = ErrNotFound) =>
            ~getTransactionReceipt(chain, req[r].txHash).found

\* "Transaction not found" for a transaction whose receipt is on the chain
C13_Witness ==
    \E r \in DOMAIN req :
        /\ Answered(r) /\ req[r].hdr.tx = TxOf(H1Lower)
        /\ req[r].res = Json(402, "Payment verification failed", ErrNotFound)
        /\ CheckReceipt(getTransactionReceipt(chain, req[r].txHash),
                        req[r].expectedAmount, req[r].expectedRecipient).valid

\* the request as it entered the fast-rail middleware
Entered(r) ==
    devBypassMiddleware([IdleReq EXCEPT !.origin = "route", !.method = req[r].method,
                                        !.path = req[r].path,
                                        !.bypassHdr = req[r].bypassHdr,
                                        !.hdr = req[r].hdr], config)

NonFastRail(r) ==
    /\ req[r].origin = "route"
    /\ req[r].hdr.kind = "json"
    /\ req[r].hdr.network # NETWORKS.megaeth

C15_PassedOn ==
    \A r \in DOMAIN req :
        NonFastRail(r) =>
            /\ req[r].st \notin {"probe", "fetch", "record", "hung"}
            /\ req[r].txHash = NoHash /\ req[r].result = NoResult
            /\ ~(req[r].x402.set /\ req[r].x402.method = "direct")
            /\ \E v \in BOOLEAN : req[r] = Downstream(Entered(r), routes, v)

C15_LedgerUntouched ==
    \A r \in DOMAIN req :
        (req'[r] # req[r] /\ req'[r].hdr.kind = "json" /\ req'[r].hdr.network # NETWORKS.megaeth)
            => usedTx' = usedTx

\* C15: for a payment header whose accepted network is a slow rail or an
\* unknown network the fast-rail middleware hands the request, as it came in,
\* to the next middleware: it sends no response, sets no payment annotation,
\* starts no verification (no RPC request, no ledger probe) and the ledger
\* is left as it was.
C15_NonFastRailUntouched == []C15_PassedOn /\ [][C15_LedgerUntouched]_vars

\* a Base payment header went past the fast-rail middleware
C15_Witness ==
    \E r \in DOMAIN req :
        /\ NonFastRail(r) /\ req[r].hdr.network = NETWORKS.base
        /\ req[r].st = "done"
        /\ req[r].x402.method = "sdk"
        /\ usedTx = {}

FastRail(r) ==
    /\ req[r].origin = "route"
    /\ req[r].hdr.kind = "json"
    /\ req[r].hdr.network = NETWORKS.megaeth

C16_Terminal ==
    \A r \in DOMAIN req :
        FastRail(r) =>
            /\ req[r].handlerRan => req[r].result.valid
            /\ Answered(r) =>
                  IF req[r].hdr.tx.kind # "hash"
                  THEN /\ req[r].res =
                            Json(402, "MegaETH payments require a txHash in the payload", "")
                       /\ ~req[r].handlerRan /\ req[r].txHash = NoHash
                  ELSE IF ~req[r].result.valid
                  THEN /\ req[r].res =
                            Json(402, "Payment verification failed", req[r].result.error)
                       /\ ~req[r].handlerRan /\ ~req[r].x402.set
                  ELSE /\ req[r].handlerRan /\ req[r].res.status = 200
                       /\ req[r].x402.method = "direct"

C16_NothingRecorded ==
    \A r \in DOMAIN req :
        (req'[r] # req[r] /\ req'[r].origin = "route" /\ req'[r].res.status = 402)
            => usedTx' = usedTx

\* C16: a request with a fast-rail payment header on a paid route whose
\* payload.txHash is missing or not 0x-prefixed, or whose verification returns
\* invalid, is answered with one 402 and ends there: the next middleware is
\* not called, the handler does not run and the step records no proof; the
\* handler runs only for a request whose verification returned valid.
C16_RejectedIsTerminal == []C16_Terminal /\ [][C16_NothingRecorded]_vars

\* the proof of a reverted transaction: 402, no handler, nothing recorded
C16_Witness ==
    \E r \in DOMAIN req :
        /\ FastRail(r) /\ Answered(r) /\ req[r].hdr.tx = TxOf(H1Upper)
        /\ req[r].res = Json(402, "Payment verification failed", ErrReverted)
        /\ ~req[r].handlerRan
        /\ usedTx = {}

\* C17 as stated: payment metadata is attached to a request, and written to
\* the request log, only for a payment that the facilitator verified
C17_Original ==
    \A r \in DOMAIN req :
        /\ (req[r].x402.set /\ req[r].x402.method = "sdk") => req[r].sdkVerified
        /\ (req[r].logged.written /\ req[r].logged.network \in {NETWORKS.base, NETWORKS.baseSepolia})
               => req[r].sdkVerified

\* a header naming Base and a payer of the client's choosing, verified by
\* nobody, reached the image handler and was logged with that payer
C17_Witness ==
    \E r \in DOMAIN req :
        /\ req[r].hdr = SdkHdr(NETWORKS.base, Payer1)
        /\ req[r].method = "POST" /\ req[r].path = "/api/image/fast"
        /\ ~req[r].devBypassed /\ ~req[r].sdkVerified
        /\ req[r].handlerRan
        /\ req[r].logged = [written |-> TRUE, payer |-> Payer1, network |-> NETWORKS.base]

\* C18 as stated: a request during which a ledger query failed is answered
\* by the middleware chain with 503; the failure never reaches the client
\* as a 402
C18_Original ==
    \A r \in DOMAIN req :
        (req[r].origin = "route" /\ req[r].st \in {"done", "hung"}
            /\ (req[r].threw \/ req[r].insFault))
          => req[r].res.status = 503

\* the probe of the ledger failed inside the fast-rail middleware: the chain
\* is abandoned, no error handler runs and no 503 is sent
C18_Witness ==
    \E r \in DOMAIN req :
        /\ req[r].origin = "route" /\ req[r].hdr = JsonHdr(NETWORKS.megaeth, TxOf(H1Lower))
        /\ req[r].threw /\ req[r].st = "hung"
        /\ ~req[r].res.sent

\* the insert of the proof failed: the client is told its payment was used
C18_LedgerFaultAsRejection ==
    \E r \in DOMAIN req :
        /\ req[r].origin = "route" /\ req[r].insFault
        /\ req[r].res = Json(402, "Payment verification failed", ErrUsedRace)
        /\ usedTx = {}

\* the request is marked verified by the fast rail, or dev-bypassed
SkipsSdk(r) ==
    req[r].devBypassed \/ (req[r].x402.set /\ req[r].x402.method = "direct")

\* the rows of the ledger that hold the hash of the request
RowsOf(r) == {row \in usedTx : row.tx_hash.id = req[r].txHash.id}

\* C27: a request that carries the fast rail's annotation (method direct) or
\* the dev-bypass mark is never handed to the SDK payment middleware, so
\* no facilitator verification happens for it; a request annotated by the
\* fast rail was verified by one call of the verifier, and the ledger holds
\* one row for its hash.
C27_SkipsSdk ==
    \A r \in DOMAIN req :
        req[r].origin = "route" =>
            /\ SkipsSdk(r) => (~req[r].sdkEntered /\ ~req[r].sdkVerified)
            /\ (req[r].x402.set /\ req[r].x402.method = "direct") =>
                  /\ req[r].result.valid
                  /\ Cardinality(RowsOf(r)) = 1

\* a request verified on the fast rail reached its handler past the SDK
\* middleware
C27_Witness ==
    \E r \in DOMAIN req :
        /\ Answered(r) /\ ~req[r].devBypassed
        /\ req[r].x402.set /\ req[r].x402.method = "direct"
        /\ req[r].handlerRan /\ ~req[r].sdkEntered
        /\ Cardinality(RowsOf(r)) = 1

\* C2 as stated: the handler of a paid route runs only for a dev-bypassed or
\* verified request, and every other request to a paid route is answered 402
\* with a PAYMENT-REQUIRED header carrying x402Version 2 and at least one
\* accepts entry.
C2_Original ==
    \A r \in DOMAIN req :
        Answered(r) =>
            /\ req[r].handlerRan => (req[r].devBypassed \/ PaymentVerified(r))
            /\ ~(req[r].devBypassed \/ PaymentVerified(r)) =>
                  /\ req[r].res.status = 402
                  /\ req[r].res.paymentRequired
                  /\ req[r].res.x402Version = 2
                  /\ Len(req[r].res.accepts) >= 1

\* the handler ran for a payment header that nothing verified
C2_Witness ==
    \E r \in DOMAIN req :
        /\ Answered(r) /\ req[r].handlerRan
        /\ ~req[r].devBypassed /\ ~PaymentVerified(r)
        /\ req[r].hdr = JsonHdr(NETWORKS.base, NoTx)

\* the price of a catalogued service in millionths of a dollar
MicroUsd(svc) ==
    CASE svc.id = "weather" -> <<"1", "0", "0", "0">>
      [] svc.id = "image-fast" -> <<"1", "5", "0", "0", "0">>

\* the decimals of a rail's stablecoin
RailDecimals(network) ==
    CASE network = NETWORKS.megaeth -> MEGAETH_CONFIG.stablecoin.decimals
      [] network = NETWORKS.base -> BASE_CONFIG.stablecoin.decimals
      [] network = NETWORKS.baseSepolia -> BASE_SEPOLIA_CONFIG.stablecoin.decimals
      [] network \in {NETWORKS.solana, NETWORKS.solanaDevnet} -> 6

\* a price in base units of a token with the given decimals
BaseUnits(svc, decimals) == MicroUsd(svc) \o Zeros(decimals - 6)

MegaethAmount(key) ==
    SelectSeq(routes[key].accepts, LAMBDA a : a.network = NETWORKS.megaeth)[1].amount

\* C8: for every catalogued route and every enabled rail the amount in the
\* route table, and in the 402 advertisement made from it, is the route's
\* price in base units of the rail's token, and the amount the fast-rail
\* middleware demands of a payment is the amount advertised for the fast rail.
C8_AdvertisedAmounts ==
    /\ \A key \in DOMAIN routes :
          /\ Len(routes[key].accepts) = 3
          /\ \A i \in 1..Len(routes[key].accepts) :
                LET a == routes[key].accepts[i] IN
                a.amount = BaseUnits(ServiceOf(key), RailDecimals(a.network))
    /\ \A r \in DOMAIN req :
          LET key == RouteKey(req[r].method, req[r].path) IN
          /\ (Answered(r) /\ req[r].res.paymentRequired) =>
                /\ Len(req[r].res.accepts) = Len(routes[key].accepts)
                /\ \A i \in 1..Len(req[r].res.accepts) :
                      /\ req[r].res.accepts[i].amount = routes[key].accepts[i].amount
                      /\ req[r].res.accepts[i].network = routes[key].accepts[i].network
          /\ (req[r].origin = "route" /\ req[r].st \in {"probe", "fetch", "record"}) =>
                req[r].expectedAmount = MegaethAmount(key)

\* the fast-rail middleware demands 15 * 10^15 base units for the $0.015 route
C8_Witness ==
    \E r \in DOMAIN req :
        /\ req[r].origin = "route" /\ req[r].st = "fetch"
        /\ req[r].path = "/api/image/fast"
        /\ req[r].expectedAmount = <<"1", "5">> \o Zeros(15)
        /\ req[r].expectedAmount = MegaethAmount(RouteKey(req[r].method, req[r].path))

\* C9 as stated: a request whose payment header does not decode, or names a
\* network that is not supported, is handled like a request without a header:
\* it gets the 402 advertisement and does not reach the handler.
C9_Original ==
    \A r \in DOMAIN req :
        (/\ Answered(r)
         /\ \/ req[r].hdr.kind = "garbage"
            \/ req[r].hdr.kind = "json" /\ detectNetwork(req[r].hdr) = "unknown") =>
            /\ req[r].res = Advertisement(req[r].method, req[r].path)
            /\ ~req[r].handlerRan

\* an undecodable header reached the handler
C9_Witness ==
    \E r \in DOMAIN req :
        /\ Answered(r) /\ req[r].hdr = Garbage /\ ~req[r].devBypassed
        /\ req[r].handlerRan /\ req[r].res.status = 200

\* C10 as stated: in development a request whose X-DEV-BYPASS equals the
\* secret is marked dev-bypassed and skips every payment middleware: it
\* reaches the handler and is never answered 402, with or without a payment
\* header.
C10_Original ==
    \A r \in DOMAIN req :
        (/\ req[r].origin = "route"
         /\ config.isDev
         /\ req[r].bypassHdr = config.devBypassSecret) =>
            /\ req[r].devBypassed
            /\ req[r].st = "done"
            /\ req[r].handlerRan
            /\ req[r].res.status # 402

\* a dev-bypassed request without a payment header is answered 402
C10_Witness ==
    \E r \in DOMAIN req :
        /\ Answered(r) /\ req[r].devBypassed /\ req[r].hdr = NoHdr
        /\ req[r].res = Advertisement(req[r].method, req[r].path)
        /\ req[r].res.status = 402 /\ ~req[r].handlerRan

\* ------------------------------------------------------------------------
\* Properties of the replay protection
\* ------------------------------------------------------------------------
\* the invocations on hash id h whose receipt passed every check and that
\* have returned
PassedOn(h) == {r \in DOMAIN req : Returned(r) /\ req[r].passed /\ req[r].txHash.id = h}

AtMostOneValid ==
    \A h \in HashIds :
        Cardinality({r \in DOMAIN req : ReturnedValid(r) /\ req[r].txHash.id = h}) <= 1

C3_Original ==
    \A r \in DOMAIN req :
        (req[r].startedUsed /\ req[r].st \in {"done", "hung"}) =>
            req[r].result = Result(FALSE, ErrUsed, NoAddr)

C3_LaterRejected ==
    \A r \in DOMAIN req :
        req[r].startedUsed =>
            /\ ~req[r].result.valid
            /\ req[r].st \notin {"fetch", "record"}
            /\ Returned(r) =>
                  IF IsAddressFormat(req[r].expectedRecipient)
                  THEN req[r].result = Result(FALSE, ErrUsed, NoAddr)
                  ELSE req[r].result = Result(FALSE, ErrBadRecipient, NoAddr)
            /\ (req[r].st \in {"done", "hung"} /\ ~Returned(r)) => req[r].threw

C3_LaterLeavesUsed ==
    \A r \in DOMAIN req :
        (req[r].startedUsed \/ req'[r].startedUsed) /\ req'[r] # req[r] => usedTx' = usedTx

\* C3: once a tx hash has been accepted, a later verification of it, in any
\* letter case and for any route, is never accepted and leaves the used-proof
\* set unchanged; it is rejected as replayed when the expected recipient is a
\* well-formed address and the ledger probe answers, as an invalid recipient
\* when the recipient is malformed, and it throws when the probe query fails.
C3_ReplayRejected == []C3_LaterRejected /\ [][C3_LaterLeavesUsed]_vars

\* accepted in lower case for one route, replayed in upper case for another
C3_Witness ==
    \E r1, r2 \in DOMAIN req :
        /\ ReturnedValid(r1) /\ req[r1].hdr.tx.h = H1Lower
        /\ req[r2].startedUsed /\ Returned(r2)
        /\ req[r2].origin = "route" /\ req[r2].hdr.tx.h = H1Upper
        /\ req[r2].path # req[r1].path
        /\ req[r2].res = Json(402, "Payment verification failed", ErrUsed)
        /\ usedTx = {[tx_hash |-> H1Lower, payer |-> req[r1].result.payer,
                      amount |-> req[r1].expectedAmount, network |-> MEGAETH_CONFIG.caip2]}

\* C4: a step in which a verification returns invalid, for whatever reason,
\* leaves the used-proof set as it was, so the hash stays acceptable.
C4_InvalidLeavesUsed ==
    [][\A r \in DOMAIN req :
          (~Returned(r) /\ Returned(r)' /\ ~req'[r].result.valid) => usedTx' = usedTx]_vars

\* a hash refused for an insufficient amount on one route is accepted on another
C4_Witness ==
    \E r1, r2 \in DOMAIN req :
        /\ Returned(r1) /\ req[r1].result.error = ErrInsufficient
        /\ ReturnedValid(r2) /\ ~req[r2].startedUsed
        /\ req[r1].txHash = req[r2].txHash
        /\ \A row \in usedTx : row.amount = req[r2].expectedAmount

\* ------------------------------------------------------------------------
\* Properties of the receipt checks
\* ------------------------------------------------------------------------
\* the value of a bigint as a number
RECURSIVE BigToInt(_)
BigToInt(s) ==
    IF s = <<>> THEN 0
    ELSE 10 * BigToInt(SubSeq(s, 1, Len(s) - 1)) + DigitVal[s[Len(s)]]

\* whether a log is a Transfer event emitted by the stablecoin contract
IsUsdmTransfer(l) == l.topic0 = "Transfer" /\ l.address.id = MEGAETH_CONFIG.stablecoin.address.id

\* the sum of the Transfer events of the stablecoin contract to the recipient
RECURSIVE SumToRecipient(_, _)
SumToRecipient(logs, recipient) ==
    IF logs = <<>> THEN 0
    ELSE SumToRecipient(Tail(logs), recipient)
           + (IF IsUsdmTransfer(Head(logs)) /\ Head(logs).to.id = recipient.id
              THEN BigToInt(Head(logs).value) ELSE 0)

Checked == vtl.out # NoResult

\* C5: on a successful receipt the verdict is valid exactly when the values of
\* the Transfer events emitted by the stablecoin contract whose `to` is the
\* expected recipient sum to a non-zero total that is at least the expected
\* amount; events of other contracts and transfers to others do not count.
C5_ValidIffSumSuffices ==
    (Checked /\ vtl.status = "success") =>
        (vtl.out.valid <=>
            /\ SumToRecipient(vtl.logs, vtl.recipient) > 0
            /\ SumToRecipient(vtl.logs, vtl.recipient) >= BigToInt(vtl.expected))

\* a split payment: two transfers, neither of which suffices, are accepted
C5_Witness ==
    /\ Checked /\ vtl.out.valid
    /\ Len(vtl.logs) = 2
    /\ \A i \in 1..2 : BigToInt(vtl.logs[i].value) < BigToInt(vtl.expected)
    /\ SumToRecipient(vtl.logs, vtl.recipient) = BigToInt(vtl.expected)

\* C6: the rejections come in a fixed order: a receipt whose status is not
\* success is "reverted" whatever its logs; otherwise, without a Transfer event
\* of the stablecoin contract, the token is wrong; otherwise a zero total to
\* the recipient is a wrong recipient; otherwise a total below the expected
\* amount is an insufficient amount.
C6_RejectionPrecedence ==
    Checked =>
        LET hasUsdm == \E i \in 1..Len(vtl.logs) : IsUsdmTransfer(vtl.logs[i])
            total   == SumToRecipient(vtl.logs, vtl.recipient)
        IN  IF vtl.status # "success" THEN vtl.out = Result(FALSE, ErrReverted, NoAddr)
            ELSE IF ~hasUsdm THEN /\ ~vtl.out.valid
                                  /\ vtl.out.error \in {ErrNoUsdm, ErrNoTransfer}
            ELSE IF total = 0 THEN vtl.out = Result(FALSE, ErrNoRecipient, NoAddr)
            ELSE IF total < BigToInt(vtl.expected)
                 THEN vtl.out = Result(FALSE, ErrInsufficient, NoAddr)
            ELSE vtl.out.valid

\* a payment one base unit short of the expected amount is insufficient
C6_Witness ==
    /\ Checked /\ vtl.status = "success"
    /\ SumToRecipient(vtl.logs, vtl.recipient) > 0
    /\ SumToRecipient(vtl.logs, vtl.recipient) = BigToInt(vtl.expected) - 1
    /\ vtl.out.error = ErrInsufficient

LowerCased(a) == [a EXCEPT !.cs = "lower"]

LowerCasedLogs(logs) ==
    [i \in 1..Len(logs) |->
        [logs[i] EXCEPT !.address = LowerCased(@), !.to = LowerCased(@)]]

\* C7: the verdict does not depend on the letter case in which the expected
\* recipient, a log's emitter or a transfer's `to` is written: it is the
\* verdict on the same receipt with all three written in lower case.
C7_CaseInsensitive ==
    Checked =>
        vtl.out = CheckReceipt(Receipt(vtl.status, LowerCasedLogs(vtl.logs)),
                               vtl.expected, LowerCased(vtl.recipient))

\* accepted with the emitter, the `to` and the recipient in three letter cases
C7_Witness ==
    /\ Checked /\ vtl.out.valid
    /\ vtl.recipient.cs = "mixed"
    /\ \E i \in 1..Len(vtl.logs) :
          /\ IsUsdmTransfer(vtl.logs[i])
          /\ vtl.logs[i].address.cs = "mixed"
          /\ vtl.logs[i].to = Addr("payTo", "upper")

\* ------------------------------------------------------------------------
\* Properties of one verifier call
\* ------------------------------------------------------------------------
Called == pf.out # NoResult

WithoutClientReceipt(p) == [p EXCEPT !.proof.receipt = NoClientReceipt]

\* C14 as stated: the verdict is the verdict of the same call without the
\* receipt that the client put into the proof.
C14_Original == Called => pf.out = Verdict(WithoutClientReceipt(pf))

\* C14: a receipt that the client put into the proof never changes what the
\* receipt checks are run on, which is the receipt fetched for the tx hash. The
\* ledger-backed verifier returns the verdict it returns without that receipt;
\* the verifier with the in-memory set does so too, except that a client
\* receipt naming another transaction hash is rejected as a mismatch before
\* anything is fetched, unless the hash was already used.
C14_ClientReceiptIgnored ==
    Called =>
        IF /\ pf.variant = "memory"
           /\ pf.proof.receipt.given
           /\ pf.proof.receipt.transactionHash.id # pf.proof.txHash.id
           /\ Verdict(WithoutClientReceipt(pf)).error # ErrUsed
        THEN pf.out = Result(FALSE, ErrMismatch, NoAddr)
        ELSE pf.out = Verdict(WithoutClientReceipt(pf))

\* a forged receipt of a sufficient payment next to a reverted transaction
C14_Witness ==
    /\ Called
    /\ pf.proof.receipt = ClientReceipt(H1Upper, ForgedReceipt)
    /\ pf.proof.txHash = H1Lower
    /\ CheckReceipt(pf.proof.receipt.receipt, pf.expectedAmount, pf.expectedRecipient).valid
    /\ chain["h1"] = RcptReverted /\ ~pf.rpcFails
    /\ pf.out = Result(FALSE, ErrReverted, NoAddr)

\* ------------------------------------------------------------------------
\* Properties of the request log at shutdown
\* ------------------------------------------------------------------------
ShuttingDown == lg.phase \in {"flush", "end", "exit"}

\* C19 as stated: at shutdown the flush timer is stopped, the insert of the
\* buffered entries completes before pool.end() is called, every entry that
\* was enqueued before the shutdown flush is a row of the table at exit, and
\* no insert is issued on the pool after it was closed
C19_Original ==
    /\ ShuttingDown => ~lg.logFlushTimer
    /\ lg.poolEnding => lg.awaited \notin lg.pending
    /\ lg.phase = "exit" => \A id \in 1..lg.mark : id \in lg.requests
    /\ lg.rejected = {}

\* no insert ever failed on the open pool, and still the process exits
\* with entries that were handed to a pool already closed
C19_Witness ==
    /\ lg.phase = "exit"
    /\ lg.rejected # {}
    /\ lg.lost = lg.rejected

\* an entry buffered before the shutdown flush is missing at exit: its
\* insert failed and the batch was dropped
C19_LostBeforeExit ==
    /\ lg.phase = "exit"
    /\ lg.rejected = {}
    /\ \E id \in 1..lg.mark : id \notin lg.requests

\* ------------------------------------------------------------------------
\* Properties of the request deadline
\* ------------------------------------------------------------------------
Timeouts(t) == SelectSeq(t.responses, LAMBDA x : x.status = 408)

\* the deadlines of the path categories, in milliseconds
CategoryDeadline(path) ==
    CASE path = "/api/llm/chat" -> 180000
      [] path = "/api/video/fast" -> 300000
      [] path \in {"/api/image/fast", "/api/tts/speak", "/api/transcribe", "/api/code/run"}
            -> 90000
      [] path \in {"/api/travel/flights", "/api/ipfs/pin"} -> 60000
      [] OTHER -> 30000

C20_OneResponse ==
    /\ Len(tmr.responses) <= 1
    /\ (tmr.handler \in {"done", "threw"} \/ tmr.timer = "fired") => Len(tmr.responses) = 1
    /\ tmr.timer = "cleared" => Timeouts(tmr) = <<>>
    /\ \A i \in 1..Len(tmr.responses) :
           tmr.responses[i].status = 408 =>
               /\ tmr.responses[i].retryable
               /\ tmr.responses[i].timeout_ms = CategoryDeadline(tmr.path)
               /\ tmr.responses[i].elapsed_ms >= CategoryDeadline(tmr.path)

C20_ExpiryAnswers ==
    (tmr.timer = "armed" /\ tmr'.timer = "fired") =>
        IF tmr.headersSent THEN tmr'.responses = tmr.responses
        ELSE tmr'.responses = <<Response(408, "Request timeout", TRUE,
                                         CategoryDeadline(tmr.path), tmr'.now)>>

\* C20: when the timer of a request fires and no response has been started,
\* the enforcer answers 408 with retryable true, timeout_ms the deadline of the
\* path's category and elapsed_ms the time since the request came in; a timer
\* cleared by "finish" or "close" sends no 408; the server writes at most one
\* response for a request, and exactly one once the handler has answered or
\* the timer has fired, whichever order the two come in.
C20_TimeoutOnce == []C20_OneResponse /\ [][C20_ExpiryAnswers]_vars

\* the timer fired at exactly the deadline and answered 408; the handler's
\* own answer came afterwards and was not sent
C20_Witness ==
    /\ tmr.finished
    /\ tmr.timer = "fired" /\ tmr.handler = "threw"
    /\ tmr.path = "/api/image/fast"
    /\ tmr.responses = <<Response(408, "Request timeout", TRUE, 90000, 90000)>>

\* ------------------------------------------------------------------------
\* Properties of an upstream call
\* ------------------------------------------------------------------------
\* C21 as stated: once the deadline of the request has expired or its client
\* has disconnected, the request sends nothing more to the provider: the
\* fetches it has issued are those it had issued at that moment
C21_Original == up.over # "" => up.fetches = up.overAt

\* the client left during the first attempt; the retry loop went on and
\* issued its three retries
C21_Witness ==
    /\ up.over = "close" /\ up.overAt = 1
    /\ up.fetches = 1 + MAX_RETRIES
    /\ up.phase = "done"

\* the handler has answered a request that failed upstream
Failed == up.phase = "done" /\ up.over = "" /\ up.res.status # 200

\* C22 as stated: no credential gives 502, an upstream 4xx that is not
\* retried gives a 4xx, and 503 is given only after the retries on 5xx, 429
\* or timeouts were used up
C22_Original ==
    Failed =>
        /\ ~up.hasKey => up.res.status = 502
        /\ (up.hasKey /\ up.last \in 400..499 \ {429}) => up.res.status \in 400..499
        /\ up.res.status = 503 =>
               (up.hasKey /\ up.attempt = MAX_RETRIES /\ up.last \in {0, 429, 500})

\* the provider answered 404 to the first attempt and the client got 503
C22_Witness ==
    /\ Failed /\ up.hasKey
    /\ up.attempt = 0 /\ up.last = 404
    /\ up.res = [status |-> 503, error |-> "Upstream temporarily unavailable",
                 retryable |-> TRUE, upstreamStatus |-> 404]

\* no credential for the provider and the client got 503
C22_NotConfiguredAs503 ==
    /\ Failed /\ ~up.hasKey /\ up.fetches = 0
    /\ up.res.status = 503 /\ up.res.upstreamStatus = 502

\* ------------------------------------------------------------------------
\* Properties of the upload counter
\* ------------------------------------------------------------------------
InFlight == {i \in 1..MaxUploads : pin.st[i].phase \in {"validating", "pinning"}}

C23_Counter ==
    /\ pin.activeUploads >= 0 /\ pin.activeUploads <= 5
    /\ Cardinality(InFlight) <= 5
    /\ pin.activeUploads = Cardinality(InFlight)
    /\ \A i \in 1..MaxUploads : pin.st[i].phase = "busy" => pin.st[i].status = 503

C23_Admission ==
    \A i \in 1..MaxUploads :
        (pin.st[i].phase = "idle" /\ pin'.st[i].phase # "idle") =>
            IF Cardinality(InFlight) = 5
            THEN pin'.st[i].phase = "busy" /\ pin'.activeUploads = pin.activeUploads
            ELSE pin'.st[i].phase # "busy"

\* C23: the counter of uploads equals the number of pin requests between
\* admission and exit, so it stays within 0..5 and is 0 when none is in
\* flight; a request arriving while 5 are in flight is answered 503 and
\* leaves the counter as it was, and every admitted request, whether it ends
\* in 200, 400 or 503, takes its one unit off the counter.
C23_UploadCounter == []C23_Counter /\ [][C23_Admission]_vars

\* five uploads in flight and a sixth request turned away
C23_Witness ==
    /\ pin.activeUploads = 5
    /\ \E i \in 1..MaxUploads : pin.st[i].phase = "busy"

\* ------------------------------------------------------------------------
\* Properties of the 402 advertisement
\* ------------------------------------------------------------------------
EntryFields == {"scheme", "network", "asset", "amount", "payTo", "maxTimeoutSeconds", "extra"}

Advertised == px.fn = "advert" /\ px.out.paymentRequired

\* the entries of the advertisement are the route table's, without price
StrippedEntries ==
    LET held == routes[RouteKey(px.method, px.path)].accepts IN
    /\ Len(px.out.accepts) = Len(held)
    /\ \A i \in 1..Len(px.out.accepts) :
          /\ DOMAIN px.out.accepts[i] = EntryFields
          /\ \A f \in EntryFields : px.out.accepts[i][f] = held[i][f]

Converted == px.fn = "price" /\ px.out # Pending

\* the price without its leading "$"
Bare(p) == IF p # <<>> /\ p[1] = "$" THEN SubSeq(p, 2, Len(p)) ELSE p

Dots(s) == {i \in 1..Len(s) : s[i] = "."}

\* digits with at most one decimal point, and at least one digit
IsDecimal(s) ==
    /\ \A i \in 1..Len(s) : s[i] \in Digits \cup {"."}
    /\ Cardinality(Dots(s)) <= 1
    /\ \E i \in 1..Len(s) : s[i] \in Digits

RECURSIVE Pow10(_)
Pow10(n) == IF n = 0 THEN 1 ELSE 10 * Pow10(n - 1)

RECURSIVE NatOf(_)
NatOf(ds) == IF ds = <<>> THEN 0 ELSE 10 * NatOf(SubSeq(ds, 1, Len(ds) - 1)) + DigitVal[ds[Len(ds)]]

Whole(s) == IF Dots(s) = {} THEN s ELSE SubSeq(s, 1, (CHOOSE i \in Dots(s) : TRUE) - 1)

Fraction(s) == IF Dots(s) = {} THEN <<>> ELSE SubSeq(s, (CHOOSE i \in Dots(s) : TRUE) + 1, Len(s))

\* the value of the decimal s times 10^d, fractions of a unit cut off
UnitsOf(s, d) ==
    NatOf(Whole(s)) * Pow10(d)
      + (IF Len(Fraction(s)) <= d
         THEN NatOf(Fraction(s)) * Pow10(d - Len(Fraction(s)))
         ELSE NatOf(Fraction(s)) \div Pow10(Len(Fraction(s)) - d))

\* C25: for a decimal price p (digits with at most one decimal point, with
\* or without a leading $) the conversion returns p * 10^d when p has at most
\* d fractional digits, so dividing by 10^d gives p back, and the integer
\* part of p * 10^d when p has more: the digits beyond d are cut off, not
\* rounded.
C25_RoundTrip ==
    (Converted /\ IsDecimal(Bare(px.price))) =>
        /\ px.out # SyntaxError
        /\ NatOf(px.out) = UnitsOf(Bare(px.price), px.decimals)

\* 0.19 at one decimal is 1 unit, not 2
C25_Witness ==
    /\ Converted
    /\ px.price = <<"0", ".", "1", "9">> /\ px.decimals = 1
    /\ px.out = <<"1">>

\* $1.9 at two decimals is 190 units
C25_WitnessExact ==
    /\ Converted
    /\ px.price = <<"$", "1", ".", "9">> /\ px.decimals = 2
    /\ px.out = <<"1", "9", "0">>

\* a price that is not a decimal: a character other than a digit or a
\* decimal point, or a second decimal point
Malformed(p) ==
    \/ \E i \in 1..Len(Bare(p)) : Bare(p)[i] \notin Digits \cup {"."}
    \/ Cardinality(Dots(Bare(p))) > 1

\* C26 as stated: the conversion of a malformed price fails
C26_Original == (Converted /\ Malformed(px.price)) => px.out = SyntaxError

\* "1.9." has two decimal points, and is converted to an amount
C26_Witness ==
    /\ Converted
    /\ px.price = <<"1", ".", "9", ".">> /\ px.decimals = 2
    /\ px.out = <<"1", "9", "0">>

\* a sign in front: a negative amount
C26_Negative ==
    /\ Converted
    /\ px.price = <<"-", "1">> /\ px.decimals = 2
    /\ px.out = <<"-", "1", "0", "0">>

\* an exponent behind the digits that are kept: an amount
C26_ExponentCut ==
    /\ Converted
    /\ px.price = <<".", "1", "e", "9">> /\ px.decimals = 1
    /\ px.out = <<"1">>

\* ------------------------------------------------------------------------
\* Properties of the request log buffer
\* ------------------------------------------------------------------------
\* how often an entry occurs in the batches handed to pool.query
InBatches(id) ==
    Cardinality({<<i, j>> \in (DOMAIN lg.issued) \X (1..MaxEntries) :
                    j <= Len(lg.issued[i].batch) /\ lg.issued[i].batch[j] = id})

\* how often an entry occurs in the buffer
InBuffer(id) == Cardinality({j \in DOMAIN lg.logBuffer : lg.logBuffer[j] = id})

IdsWith(results) ==
    UNION {Ids(lg.issued[i].batch) : i \in {k \in DOMAIN lg.issued : lg.issued[k].result \in results}}

C28_Conserved ==
    /\ \A id \in 1..lg.n : InBatches(id) + InBuffer(id) = 1
    /\ lg.requests = IdsWith({"ok"})
    /\ lg.lost = IdsWith({"failed", "rejected"})
    /\ lg.pending = {lg.issued[i].batch : i \in {k \in DOMAIN lg.issued : lg.issued[k].result = "pending"}}

\* while the flush timer runs, a buffered entry gets into a batch
C28_Flushed ==
    \A id \in 1..MaxEntries :
        (InBuffer(id) = 1 /\ lg.logFlushTimer) ~> (InBatches(id) = 1 \/ ~lg.logFlushTimer)

\* C28: at every moment each entry passed to logRequest is either once in
\* the buffer or once in exactly one batch handed to the pool, never both
\* and never in two batches, whatever the order of logRequest calls, timer
\* flushes, size-triggered flushes and returning inserts; the rows of the
\* table are the entries of the batches whose insert succeeded, and the
\* entries lost are those of the batches whose insert failed; as long as the
\* flush timer runs every buffered entry ends up in a batch.
C28_ExactlyOneBatch == []C28_Conserved /\ C28_Flushed

\* two inserts in flight at once, every entry in one of them
C28_Witness ==
    /\ lg.phase = "up"
    /\ Cardinality(lg.pending) = 2
    /\ lg.n = MaxEntries /\ lg.logBuffer = <<>>
    /\ \A id \in 1..lg.n : InBatches(id) = 1

C29_Sizes ==
    /\ Len(lg.logBuffer) < LOG_BATCH_SIZE
    /\ \A i \in DOMAIN lg.issued :
          Len(lg.issued[i].batch) >= 1 /\ Len(lg.issued[i].batch) <= LOG_BATCH_SIZE

C29_Flushes ==
    /\ (lg'.n = lg.n + 1 /\ Len(lg.logBuffer) + 1 >= LOG_BATCH_SIZE) =>
           (lg'.logBuffer = <<>> /\ Len(lg'.issued) = Len(lg.issued) + 1)
    /\ (lg'.n = lg.n /\ lg.logBuffer = <<>>) => Len(lg'.issued) = Len(lg.issued)
    /\ (lg'.n = lg.n /\ Len(lg'.issued) > Len(lg.issued)) =>
           (lg'.logBuffer = <<>> /\ lg'.issued[Len(lg'.issued)].batch = lg.logBuffer)

\* C29: the logRequest call that fills the buffer to the batch size starts a
\* flush before it returns, and a timer tick flushes whatever the buffer
\* holds; so between calls the buffer holds fewer entries than the batch
\* size, no batch handed to the pool has more rows than the batch size, and
\* a flush of an empty buffer hands nothing to the pool.
C29_BatchSize == []C29_Sizes /\ [][C29_Flushes]_vars

\* a batch of full size went out from logRequest, a smaller one from the timer
C29_Witness ==
    /\ Len(lg.issued) = 2
    /\ Len(lg.issued[1].batch) = LOG_BATCH_SIZE
    /\ Len(lg.issued[2].batch) = 1

C30_Discarded ==
    \A i \in DOMAIN lg.issued :
        lg.issued[i].result = "failed" =>
            /\ Ids(lg.issued[i].batch) \cap Ids(lg.logBuffer) = {}
            /\ Ids(lg.issued[i].batch) \cap lg.requests = {}
            /\ \A k \in DOMAIN lg.issued :
                  k # i => Ids(lg.issued[k].batch) \cap Ids(lg.issued[i].batch) = {}

C30_NoWaiting ==
    /\ (lg'.n = lg.n + 1 /\ ~lg.poolEnding) =>
           /\ lg'.requests = lg.requests /\ lg'.lost = lg.lost
           /\ \A i \in DOMAIN lg'.issued :
                 i > Len(lg.issued) => lg'.issued[i].result = "pending"
    /\ (lg'.n = lg.n /\ lg'.lost # lg.lost) =>
           /\ lg'.logBuffer = lg.logBuffer
           /\ lg'.logFlushTimer = lg.logFlushTimer

\* C30: logRequest returns with the insert it started still pending, and a
\* storage failure reaches no caller; the batch of a failed insert is
\* dropped, its entries are neither in the buffer nor in a later batch nor in
\* the table, and the failure leaves buffer and timer as they were, so later
\* entries are flushed as before.
C30_FailureSwallowed == []C30_Discarded /\ [][C30_NoWaiting]_vars

\* the first batch failed and was dropped, a later one was inserted
C30_Witness ==
    /\ Len(lg.issued) >= 2
    /\ lg.issued[1].result = "failed"
    /\ lg.issued[2].result = "ok"
    /\ Ids(lg.issued[1].batch) \subseteq lg.lost
    /\ Ids(lg.issued[2].batch) \subseteq lg.requests

\* ------------------------------------------------------------------------
\* Properties of the key pool
\* ------------------------------------------------------------------------
\* the non-empty secrets of the registration in force, in registration order
Registered(p) == SelectSeq(kp.given[p], LAMBDA k : k # "")

C31_State ==
    \A p \in Tags :
        IF Registered(p) # <<>>
        THEN /\ kp.pools[p].present
             /\ kp.pools[p].index \in 0..(Len(Registered(p)) - 1)
             /\ kp.pools[p].index = kp.made[p] % Len(Registered(p))
             /\ kp.pools[p].totalAcquires = kp.made[p]
        ELSE kp.pools[p] = NoPool

C31_Acquire ==
    \A p \in Tags :
        (kp'.calls = kp.calls + 1 /\ kp'.last.provider = p) =>
            IF Registered(p) # <<>>
            THEN /\ kp'.last.ret = Key(Registered(p)[(kp.made[p] % Len(Registered(p))) + 1])
                 /\ kp'.last.ret.key # ""
                 /\ kp'.made[p] = kp.made[p] + 1
            ELSE /\ kp'.last.ret = Null
                 /\ kp'.pools = kp.pools

\* C31: with n >= 1 non-empty secrets in force for a provider, the k-th
\* acquire since that registration returns secret number (k-1) mod n of the
\* registration order and never the empty string, next_index stays in
\* 0..n-1 and total_acquires counts the acquires; for a provider that is
\* unknown or was only ever given empty strings acquire returns null and
\* leaves the pools as they were.
C31_RoundRobin == []C31_State /\ [][C31_Acquire]_vars

\* the fourth acquire on a pool of three secrets, registered with an empty
\* string among them, wrapped around to the first
C31_Witness ==
    /\ kp.given["alchemy"] = <<"k2", "", "k1">>
    /\ kp.made["alchemy"] = 3
    /\ kp.last = [provider |-> "alchemy", ret |-> Key("k2")]
    /\ kp.pools["alchemy"].index = 1

\* ------------------------------------------------------------------------
\* Properties of the response cache
\* ------------------------------------------------------------------------
\* the key was set, not cleared since, and the expiry of that set has not passed
Live(k) ==
    /\ ttl.written[k].set
    /\ ttl.now <= ttl.written[k].at + ttl.written[k].ms

C32_Get ==
    \A k \in CacheKeys :
        (ttl'.gets # ttl.gets /\ ttl'.last.key = k) =>
            /\ ttl'.last.ret = IF Live(k) THEN Data(ttl.written[k].data) ELSE Undefined
            /\ ~Live(k) => ~ttl'.store[k].present
            /\ \A j \in CacheKeys \ {k} : ttl'.store[j] = ttl.store[j]

\* C32: get returns the value of the last set of the key if and only if
\* the key was set and the expiry of that set has not passed; a get on an
\* expired key removes the entry and returns empty; a set replaces the value
\* and restarts the expiry; a get never changes another key.
C32_GetSet == [][C32_Get]_vars

\* a get has just evicted key "a", expired after being replaced by a second
\* set, while key "b" is still stored
C32_Witness ==
    /\ ttl.last = [key |-> "a", ret |-> Undefined]
    /\ ttl.written["a"].set /\ ttl.written["a"].data = "d2" /\ ttl.written["a"].at > 0
    /\ ttl.now > ttl.written["a"].at + ttl.written["a"].ms
    /\ ~ttl.store["a"].present
    /\ ttl.store["b"].present

\* ------------------------------------------------------------------------
\* Properties of the retry loops
\* ------------------------------------------------------------------------
\* the fetch of the current attempt has just come back with this outcome
CameBack(outcome) ==
    /\ ft.phase = "fetch"
    /\ ft'.outcomes = Append(ft.outcomes, outcome)

C33_Retry ==
    \A outcome \in FetchOutcomes :
        CameBack(outcome) =>
            /\ ((outcome >= 500 \/ outcome = 429 \/ outcome = 0)
                    /\ ft.attempt < MaxRetries(ft.fn)) => ft'.phase = "sleep"
            /\ (outcome \in 400..499 \ {429}) => ft'.phase = "threw"
            /\ ft'.phase = "threw" => ft'.result = outcome

C33_Bounded ==
    /\ ft.fetches <= MaxRetries(ft.fn) + 1
    /\ Len(ft.delays) = ft.fetches - 1
    /\ \A k \in DOMAIN ft.delays : ft.delays[k] >= 500 * Pow2(k - 1)

\* C33 as stated: at most MAX_RETRIES + 1 attempts; a 5xx, a 429 or a
\* timeout on a non-final attempt is followed by another attempt, retry k
\* after at least 500 * 2^(k-1) ms; another 4xx is never retried; the error
\* raised at the end is the last one
C33_Original == []C33_Bounded /\ [][C33_Retry]_vars

\* geckoFetch got 429 on its first attempt and threw it without a retry
C33_Witness ==
    /\ ft.fn = "gecko" /\ ft.phase = "threw"
    /\ ft.fetches = 1 /\ ft.outcomes = <<429>> /\ ft.result = 429

\* openrouterFetch got 429 on its first attempt and threw it without a retry
C33_OpenrouterNoRetry ==
    /\ ft.fn = "openrouter" /\ ft.phase = "threw"
    /\ ft.fetches = 1 /\ ft.outcomes = <<429>> /\ ft.result = 429

\* ------------------------------------------------------------------------
\* Properties of the logging of one handled request
\* ------------------------------------------------------------------------
\* the fast-rail middleware has verified the current request
FastVerified == hd.cur.mw \in {"hook", "early"} /\ hd.cur.phase \in {"upstream", "done"}

PaymentEntries == SelectSeq(hd.log, LAMBDA e : e.service = "megaeth-payment")

\* C34 as stated: a request verified by the fast-rail middleware has no
\* payment entry before its response ends and exactly one from then on, with
\* the status of the response (408 included) and the time from the start of
\* the verification to the end of the response
C34_Original ==
    FastVerified =>
        /\ ~hd.cur.ended => PaymentEntries = <<>>
        /\ hd.cur.ended =>
              PaymentEntries = <<[service |-> "megaeth-payment",
                                  upstreamStatus |-> hd.cur.statusCode,
                                  latencyMs |-> hd.cur.endedAt - hd.cur.start]>>

\* the deadline answered 408 while the verification was pending; the proof
\* was then verified, the handler ran, and no payment entry was written
C34_Witness ==
    /\ hd.cur.mw = "hook" /\ hd.cur.hooked
    /\ hd.cur.phase = "done"
    /\ hd.cur.ended /\ hd.cur.statusCode = 408
    /\ PaymentEntries = <<>>

\* the earlier copy logged 200 at verification time; the response was 503
C34_EarlyLogs200 ==
    /\ hd.cur.mw = "early" /\ hd.handler = "nft-metadata"
    /\ hd.cur.phase = "done" /\ hd.cur.statusCode = 503
    /\ Len(PaymentEntries) = 1 /\ PaymentEntries[1].upstreamStatus = 200

\* with the middleware that logs when the response ends, and a response that
\* had not been sent when the verification returned, the entry is as stated
C34_HookWhenInTime ==
    (FastVerified /\ hd.cur.mw = "hook" /\ Len(PaymentEntries) > 0) =>
        /\ hd.cur.ended
        /\ PaymentEntries = <<[service |-> "megaeth-payment",
                               upstreamStatus |-> hd.cur.statusCode,
                               latencyMs |-> hd.cur.endedAt - hd.cur.start]>>

\* the handler has finished with a request that passed its validation
Handled == hd.cur.phase = "done" /\ hd.cur.valid

ServiceEntries == SelectSeq(hd.log, LAMBDA e : e.service = hd.handler)

\* C36 as stated: a request that passed validation and was answered by the
\* handler, from the cache or from upstream, has exactly one entry of the
\* handler's service
C36_Original == Handled => Len(ServiceEntries) = 1

\* the second request was answered from the cache and left no entry
C36_Witness ==
    /\ Handled /\ hd.n = 2
    /\ hd.cur.ended /\ hd.cur.statusCode = 200
    /\ ServiceEntries = <<>>

\* ------------------------------------------------------------------------
\* Properties of the used-proof set
\* ------------------------------------------------------------------------
\* the verifications that returned valid for the hash of a row
ValidVerdictsFor(row) == {r \in DOMAIN req : ReturnedValid(r) /\ req[r].txHash = row.tx_hash}

C35_Exact ==
    /\ \A row \in usedTx :
          /\ row.tx_hash.cs = "lower"
          /\ Cardinality(ValidVerdictsFor(row)) = 1
          /\ \A r \in ValidVerdictsFor(row) : req[r].passed
    /\ \A r \in DOMAIN req :
          ReturnedValid(r) => \E row \in usedTx : row.tx_hash = req[r].txHash

C35_Kept == usedTx \subseteq usedTx'

\* C35: the used-proof set holds exactly the lowercased hashes of the
\* verifications that returned valid, each inserted after all receipt checks
\* passed and matched by one valid verdict, and no step, the cleanup of old
\* request logs included, removes a hash.
C35_UsedSetGrows == []C35_Exact /\ [][C35_Kept]_vars

\* the log row of a request paid with an upper-case hash has been cleaned up
\* and its hash is still in the set, in lower case
C35_Witness ==
    \E r \in DOMAIN req :
        /\ ReturnedValid(r) /\ req[r].origin = "route" /\ req[r].handlerRan
        /\ req[r].hdr.tx = TxOf(H1Upper)
        /\ ~req[r].logged.written
        /\ \E row \in usedTx : row.tx_hash = H1Lower

\* ------------------------------------------------------------------------
\* Properties of the verifier with the in-memory set
\* ------------------------------------------------------------------------
MemoryValid(h) ==
    {i \in DOMAIN mem.inv : mem.inv[i].st = "done" /\ mem.inv[i].result.valid
                            /\ mem.inv[i].txHash = h}

\* C37 as stated: at most one call per tx hash returns valid, also when calls
\* for the same hash overlap across the awaited receipt fetch
C37_Original == \A h \in {H1Lower, H2Lower} : Cardinality(MemoryValid(h)) <= 1

\* two calls for the same transaction, one with the hash in upper case, both
\* returned valid
C37_Witness ==
    /\ mem.inv[1].st = "done" /\ mem.inv[1].result.valid
    /\ mem.inv[2].st = "done" /\ mem.inv[2].result.valid
    /\ mem.inv[1].txHash = H1Lower /\ mem.inv[2].txHash = H1Lower
    /\ mem.usedTxHashes = {H1Lower}

\* calls that do not overlap: a call that begins after a valid verdict for
\* its hash is rejected as already used
C37_SequentialReplayRejected ==
    \A i \in DOMAIN mem.inv :
        (mem.inv[i].st = "idle" /\ mem'.inv[i].st # "idle"
            /\ \E j \in MemoryValid(mem'.inv[i].txHash) : j # i) =>
            mem'.inv[i].result = Result(FALSE, ErrUsed, NoAddr)

C37_SequentialOnly == [][C37_SequentialReplayRejected]_vars

\* ------------------------------------------------------------------------
\* Properties of the demanded amount and recipient
\* ------------------------------------------------------------------------
BothServed == pair.first.st # "idle" /\ pair.second.st # "idle"

\* the amount and the recipient of the route table's fast-rail entry
Demanded(q) ==
    LET mega == SelectSeq(routes[RouteKey(q.method, q.path)].accepts,
                          LAMBDA a : a.network = NETWORKS.megaeth)
    IN  [amount |-> mega[1].amount, payTo |-> mega[1].payTo]

\* C38: two requests to the same route with the same tx hash whose headers
\* differ only in accepted.amount, accepted.payTo or accepted.asset get the
\* same verdict and the same response, and what the middleware demanded of
\* either is the amount and the recipient of the server's route table.
C38_SameVerdict ==
    BothServed =>
        /\ pair.first.result = pair.second.result
        /\ pair.first.res = pair.second.res
        /\ \A q \in {pair.first, pair.second} :
              q.txHash # NoHash =>
                  /\ q.expectedAmount = Demanded(q).amount
                  /\ q.expectedRecipient = Demanded(q).payTo

\* a transfer to somebody else: rejected for the client that names that
\* recipient and a zero amount as for the client that names the server's
C38_Witness ==
    /\ BothServed
    /\ chain["h1"] = RcptWrongTo
    /\ pair.first.hdr.accepted = [amount |-> <<"0">>, payTo |-> Addr("other", "lower"),
                                  asset |-> Addr("otherToken", "lower")]
    /\ pair.second.hdr.accepted = [amount |-> Amt1e15, payTo |-> PayTo, asset |-> Usdm]
    /\ pair.first.res.status = 402 /\ pair.second.res.status = 402
    /\ pair.first.result.error = pair.second.result.error
    /\ pair.first.txHash = H1Lower

\* ------------------------------------------------------------------------
\* Properties of the route classification
\* ------------------------------------------------------------------------
\* the advertiser and the fast-rail middleware find the request's route
ClassifiedPaid(r) == RouteKey(req[r].method, req[r].path) \in DOMAIN routes

\* the path is a catalogued path in another letter case or with a trailing slash
Respelled(r) ==
    /\ req[r].path \notin {services[i].path : i \in 1..Len(services)}
    /\ \E i \in 1..Len(services) :
          Spelling(req[r].path).lower = Spelling(services[i].path).lower

\* C39 as stated: a request dispatched to the handler of a paid route is
\* classified as paid by the advertiser and by the fast-rail middleware, and
\* a request whose path differs from a catalogued path only by letter case
\* or a trailing slash does not reach the handler without payment
C39_Original ==
    \A r \in DOMAIN req :
        req[r].handlerRan =>
            /\ ClassifiedPaid(r)
            /\ Respelled(r) => (req[r].result.valid \/ req[r].sdkVerified)

\* GET /api/weather/current/ without any payment header was answered 200 by
\* the weather handler
C39_Witness ==
    \E r \in DOMAIN req :
        /\ req[r].method = "GET" /\ req[r].path = "/api/weather/current/"
        /\ req[r].hdr = NoHdr
        /\ req[r].handlerRan /\ req[r].res.status = 200
        /\ ~req[r].result.valid /\ ~req[r].sdkVerified /\ ~req[r].devBypassed

\* the same for the path in another letter case, and for HEAD on the exact path
C39_OtherSpellings ==
    \E r \in DOMAIN req :
        /\ req[r].hdr = NoHdr /\ req[r].handlerRan /\ req[r].res.status = 200
        /\ \/ req[r].method = "GET" /\ req[r].path = "/API/Weather/Current"
           \/ req[r].method = "HEAD" /\ req[r].path = "/api/weather/current"

\* with method and path spelled as in the catalogue and no payment header,
\* the request is advertised the price and the handler does not run
C39_ExactSpellingAdvertised ==
    \A r \in DOMAIN req :
        (req[r].st = "done" /\ req[r].hdr = NoHdr /\ ClassifiedPaid(r)) =>
            /\ ~req[r].handlerRan
            /\ req[r].res.status = 402

====
